---------------------------- MODULE Spec2Model ----------------------------
(***************************************************************************)
(* Model of the editing session of src/main.py (class MainWindow): the     *)
(* current and original frame, the compressed undo/redo stacks, the lazily *)
(* cached brightness/contrast baselines, the four adjustment sliders and   *)
(* the status line.                                                        *)
(*                                                                         *)
(* Frames.  A frame is a uniform image: every pixel has the same samples   *)
(* b, g, r in 0..255.  ndim is numpy's ndim (3: BGR; 2: single channel,    *)
(* whose one sample is held in b = g = r).  On such frames the cv2 calls   *)
(* of the modelled handlers are computed per pixel by the operators below. *)
(* None is Python's None and Absent is a missing attribute (hasattr(...)   *)
(* is False).                                                              *)
(*                                                                         *)
(* Handlers are operators from a window record to the window record after  *)
(* the handler has returned, so that a handler that calls other handlers   *)
(* (a slider's setValue emitting valueChanged, reset_adjustments) is the   *)
(* composition the code performs.  Each action applies one handler.        *)
(***************************************************************************)
EXTENDS Integers, Sequences, FiniteSets, TLC

VARIABLES win,   \* the MainWindow object: a record of its fields
          op,    \* the handler the event loop ran last
          nops   \* number of handlers run so far (bounded exploration)

vars == <<win, op, nops>>

-----------------------------------------------------------------------------
(* Bounds and program constants *)

\* Spec explores every sequence of at most MaxOps handler invocations.
MaxOps == 5

\* SpecColour explores every sequence of at most MaxAdjust handler
\* invocations.
MaxAdjust == 4

\* SpecVoice explores every sequence of at most MaxHeard loads and voice
\* commands.
MaxHeard == 3

\* SpecLog explores every sequence of at most MaxLogged voice commands.
MaxLogged == 17

\* SpecFault explores every sequence of at most MaxFaulty handler
\* invocations and snapshot faults.
MaxFaulty == 5

\* SpecFiles explores every sequence of at most MaxFiled handler invocations.
MaxFiled == 4

\* SpecThreads explores every interleaving with at most MaxActs user actions
\* and recognized utterances and at most MaxPending status and error events
\* waiting in the control thread's queue.
MaxActs == 4
MaxPending == 2

\* self.max_stack_size
max_stack_size == 20

\* cv2.IMWRITE_JPEG_QUALITY in compress_image
JPEG_QUALITY == 90

\* self.max_history_size
max_history_size == 15

\* self.max_recent_files
max_recent_files == 10

-----------------------------------------------------------------------------
(* Values *)

\* The uniform frame with ndim dimensions whose samples all equal y.
Gray(ndim, y) == [ndim |-> ndim, b |-> y, g |-> y, r |-> y]

None == Gray(0, 0)
Absent == Gray(-1, 0)

Min(a, b) == IF a <= b THEN a ELSE b
Max(a, b) == IF a >= b THEN a ELSE b
Abs(a) == IF a < 0 THEN -a ELSE a
Front(s) == SubSeq(s, 1, Len(s) - 1)
Last(s) == s[Len(s)]

\* n / d rounded to the nearest integer, ties to even (cvRound, np.rint)
RoundHalfEven(n, d) ==
    LET q == n \div d
        r == n % d
    IN  IF 2 * r < d THEN q
        ELSE IF 2 * r > d THEN q + 1
        ELSE IF q % 2 = 0 THEN q ELSE q + 1

clamp(val, lo, hi) == Max(lo, Min(hi, val))

\* The files the user can pick: a 3-channel image, a single-channel image,
\* a file cv2.imread cannot decode, and a path that does not exist.
Paths == {"a.png", "b.png", "bad.png", "missing.png"}
\* Colour images: a saturated red-magenta (hue 170 of 180) and a pale green.
ColourPaths == {"rose.png", "sage.png"}
path_exists(path) == path # "missing.png"
imread(path) ==
    IF path = "a.png" THEN Gray(3, 100)
    ELSE IF path = "b.png" THEN Gray(2, 60)
    ELSE IF path = "rose.png" THEN [ndim |-> 3, b |-> 85, g |-> 0, r |-> 255]
    ELSE IF path = "sage.png" THEN [ndim |-> 3, b |-> 120, g |-> 160, r |-> 100]
    ELSE None

\* Slider positions the user (or a voice command) asks for.
BrightnessValues == {-100, 30, 60}
ContrastValues == {50, 150}
SaturationValues == {150}
HueValues == {90}
\* Values a voice command can ask a slider for, inside and outside its range.
ColourBrightnessValues == {-150, -40, 60}
ColourContrastValues == {-50, 150, 250}
ColourSaturationValues == {-20, 150, 250}
ColourHueValues == {-190, 10, 190}

-----------------------------------------------------------------------------
(* Image snapshot store: JPEG at quality 90.                               *)
(* A three-channel image is stored as Y, Cb, Cr planes in libjpeg's 16-bit *)
(* fixed point, a single-channel image as its one plane.  For a uniform    *)
(* block the only non-zero DCT coefficient of a plane is the DC term       *)
(* 8 * (x - 128); libjpeg quantises it with the step the quality setting   *)
(* gives the DC entry of the luminance table (16) or chrominance table     *)
(* (17).                                                                   *)

JpegDcStep == (16 * (200 - 2 * JPEG_QUALITY) + 50) \div 100
JpegChromaDcStep == (17 * (200 - 2 * JPEG_QUALITY) + 50) \div 100

\* rgb_ycc_convert
rgb_ycc(img) ==
    [y |-> (19595 * img.r + 38470 * img.g + 7471 * img.b + 32768) \div 65536,
     cb |-> (-11059 * img.r - 21709 * img.g + 32768 * img.b
                 + 128 * 65536 + 32767) \div 65536,
     cr |-> (32768 * img.r - 27439 * img.g - 5329 * img.b
                 + 128 * 65536 + 32767) \div 65536]

\* ycc_rgb_convert
ycc_rgb(y, cb, cr) ==
    [ndim |-> 3,
     b |-> clamp(y + (116130 * (cb - 128) + 32768) \div 65536, 0, 255),
     g |-> clamp(y + (-22554 * (cb - 128) + 32768 - 46802 * (cr - 128))
                         \div 65536, 0, 255),
     r |-> clamp(y + (91881 * (cr - 128) + 32768) \div 65536, 0, 255)]

\* A plane's sample after quantisation of its DC term, and back.
quantise(x, step) == RoundHalfEven(8 * (x - 128), step)
dequantise(dc, step) == clamp(128 + RoundHalfEven(dc * step, 8), 0, 255)

compress_image(img) ==
    IF img.ndim = 3
    THEN LET ycc == rgb_ycc(img)
         IN  [channels |-> 3,
              dc |-> quantise(ycc.y, JpegDcStep),
              cb |-> quantise(ycc.cb, JpegChromaDcStep),
              cr |-> quantise(ycc.cr, JpegChromaDcStep)]
    ELSE [channels |-> 1, dc |-> quantise(img.b, JpegDcStep), cb |-> 0, cr |-> 0]

\* Bytes that are not a JPEG stream any more.
Undecodable == [channels |-> 0, dc |-> 0, cb |-> 0, cr |-> 0]

\* cv2.imdecode returns None for data it cannot decode.
decompress_image(buffer) ==
    IF buffer = Undecodable THEN None
    ELSE IF buffer.channels = 3
    THEN ycc_rgb(dequantise(buffer.dc, JpegDcStep),
                 dequantise(buffer.cb, JpegChromaDcStep),
                 dequantise(buffer.cr, JpegChromaDcStep))
    ELSE Gray(2, dequantise(buffer.dc, JpegDcStep))

-----------------------------------------------------------------------------
(* cv2 on uniform frames *)

\* One sample of cv2.convertScaleAbs(src, alpha = alpha100 / 100, beta):
\* saturate_cast<uchar>(|sample * alpha + beta|).  The handlers pass alpha =
\* value / 100.0; the values explored are those whose alpha is a binary
\* fraction, for which the float product is exact.
scale_abs(sample, alpha100, beta) ==
    Min(255, Abs(RoundHalfEven(sample * alpha100 + 100 * beta, 100)))

convertScaleAbs(src, alpha100, beta) ==
    [ndim |-> src.ndim,
     b |-> scale_abs(src.b, alpha100, beta),
     g |-> scale_abs(src.g, alpha100, beta),
     r |-> scale_abs(src.r, alpha100, beta)]

\* cv2.cvtColor(img, COLOR_GRAY2BGR) when img.ndim = 2
to_bgr(img) == [img EXCEPT !.ndim = 3]

\* cv2.cvtColor(img, COLOR_BGR2GRAY): 14-bit fixed-point luma weights
BGR2GRAY(img) ==
    Gray(2, (1868 * img.b + 9617 * img.g + 4899 * img.r + 8192) \div 16384)

\* cv2.bitwise_not
bitwise_not(img) ==
    [img EXCEPT !.b = 255 - @, !.g = 255 - @, !.r = 255 - @]

\* cv2.transform(img, kernel) with the sepia matrix (in thousandths): row k
\* of the matrix gives output channel k from the input channels in order.
transform_sepia(img) ==
    [ndim |-> 3,
     b |-> Min(255, RoundHalfEven(272 * img.b + 534 * img.g + 131 * img.r, 1000)),
     g |-> Min(255, RoundHalfEven(349 * img.b + 686 * img.g + 168 * img.r, 1000)),
     r |-> Min(255, RoundHalfEven(393 * img.b + 769 * img.g + 189 * img.r, 1000))]

\* cv2.cvtColor(img, COLOR_BGR2YCrCb) and back, 14-bit fixed point.  Between
\* the two, cv2.equalizeHist leaves a plane that holds one value as it is.
BGR2YCrCb(img) ==
    LET y == (1868 * img.b + 9617 * img.g + 4899 * img.r + 8192) \div 16384
    IN  [y |-> y,
         cr |-> clamp(((img.r - y) * 11682 + 128 * 16384 + 8192) \div 16384, 0, 255),
         cb |-> clamp(((img.b - y) * 9241 + 128 * 16384 + 8192) \div 16384, 0, 255)]

YCrCb2BGR(ycrcb) ==
    [ndim |-> 3,
     b |-> clamp(ycrcb.y + ((ycrcb.cb - 128) * 29049 + 8192) \div 16384, 0, 255),
     g |-> clamp(ycrcb.y + ((ycrcb.cb - 128) * (-5636)
                               + (ycrcb.cr - 128) * (-11698) + 8192) \div 16384,
                 0, 255),
     r |-> clamp(ycrcb.y + ((ycrcb.cr - 128) * 22987 + 8192) \div 16384, 0, 255)]

\* cv2.cvtColor(img, COLOR_BGR2HSV) on 8-bit samples: h in 0..179 (two
\* degrees a step), s and v in 0..255, in 12-bit fixed point with the
\* division tables sdiv_table and hdiv_table180 (4096 = 1 << 12).
sdiv_table(i) == IF i = 0 THEN 0 ELSE RoundHalfEven(255 * 4096, i)
hdiv_table180(i) == IF i = 0 THEN 0 ELSE RoundHalfEven(180 * 4096, 6 * i)

BGR2HSV(img) ==
    LET v == Max(img.b, Max(img.g, img.r))
        vmin == Min(img.b, Min(img.g, img.r))
        diff == v - vmin
        s == (diff * sdiv_table(v) + 2048) \div 4096
        h0 == IF v = img.r THEN img.g - img.b
              ELSE IF v = img.g THEN img.b - img.r + 2 * diff
              ELSE img.r - img.g + 4 * diff
        h1 == (h0 * hdiv_table180(diff) + 2048) \div 4096
    IN  [h |-> IF h1 < 0 THEN h1 + 180 ELSE h1, s |-> s, v |-> v]

\* cv2.cvtColor(hsv, COLOR_HSV2BGR) on 8-bit samples: the hue circle in six
\* sectors of 30 steps; within a sector one channel is v, one is
\* v * (1 - s) and one moves between them linearly in the hue.  The float
\* arithmetic is taken as exact and rounded to the nearest sample.
HSV2BGR(hsv) ==
    LET sector == (hsv.h \div 30) % 6
        f == hsv.h % 30
        tab0 == hsv.v
        tab1 == RoundHalfEven(hsv.v * (255 - hsv.s), 255)
        tab2 == RoundHalfEven(hsv.v * (7650 - hsv.s * f), 7650)
        tab3 == RoundHalfEven(hsv.v * (7650 - hsv.s * (30 - f)), 7650)
    IN  IF hsv.s = 0 THEN Gray(3, hsv.v)
        ELSE CASE sector = 0 -> [ndim |-> 3, b |-> tab1, g |-> tab3, r |-> tab0]
               [] sector = 1 -> [ndim |-> 3, b |-> tab1, g |-> tab0, r |-> tab2]
               [] sector = 2 -> [ndim |-> 3, b |-> tab3, g |-> tab0, r |-> tab1]
               [] sector = 3 -> [ndim |-> 3, b |-> tab0, g |-> tab2, r |-> tab1]
               [] sector = 4 -> [ndim |-> 3, b |-> tab0, g |-> tab1, r |-> tab3]
               [] sector = 5 -> [ndim |-> 3, b |-> tab2, g |-> tab1, r |-> tab0]

-----------------------------------------------------------------------------
(* MainWindow *)

\* MainWindow.__init__ and _setup_ui
InitWindow ==
    [current_image |-> None,
     original_image |-> None,
     undo_stack |-> <<>>,
     redo_stack |-> <<>>,
     has_unsaved_changes |-> FALSE,
     brightness_base |-> Absent,
     contrast_base |-> Absent,
     brightness_slider |-> 0,
     contrast_slider |-> 100,
     saturation_slider |-> 100,
     hue_slider |-> 0,
     zoom_level |-> [fit |-> FALSE, steps |-> 0],
     command_history |-> <<>>,
     closed |-> FALSE,
     SequenceMatcher |-> "difflib",
     voice_button |-> [checked |-> FALSE, text |-> "Voice Control"],
     speech_thread |-> [running |-> FALSE, pc |-> "idle"],
     tts_thread |-> [_running |-> TRUE, pc |-> "init"],
     event_queue |-> <<>>,
     recent_files |-> <<>>,
     status |-> "Ready"]

status(w, msg) == [w EXCEPT !.status = msg]

speak(w, text) == status(w, text)

_check_image(w) == w.current_image # None

\* Faulty variant of NoImage: the refusal marks the session as changed.
NoImage_MarksUnsaved(w) ==
    status([w EXCEPT !.has_unsaved_changes = TRUE], "No image loaded")

NoImage(w) == status(w, "No image loaded")

display_image(w) ==
    IF w.current_image = None THEN w
    ELSE status(w, IF w.has_unsaved_changes THEN "Image*" ELSE "Image")

(* File operations *)

\* The recent-files list after a load of path: a path not yet listed is put
\* first and the list cut to max_recent_files.
remembered(recent_files, path) ==
    IF \E i \in 1..Len(recent_files) : recent_files[i] = path THEN recent_files
    ELSE LET listed == <<path>> \o recent_files
         IN  SubSeq(listed, 1, Min(Len(listed), max_recent_files))

\* Faulty variant of _load_image_from_path: a file that does not decode is
\* listed among the recent files.
_load_image_from_path_ListsFailure(w, path) ==
    IF ~path_exists(path) THEN status(w, "File not found")
    ELSE IF imread(path) = None
    THEN status([w EXCEPT !.recent_files = remembered(@, path)],
                "Failed to load image")
    ELSE status(speak(display_image(
             [w EXCEPT !.current_image = imread(path),
                       !.original_image = imread(path),
                       !.zoom_level = [fit |-> FALSE, steps |-> 0],
                       !.undo_stack = <<>>,
                       !.redo_stack = <<>>,
                       !.has_unsaved_changes = FALSE,
                       !.recent_files = remembered(@, path)]),
             "Image loaded"), "Loaded")

\* Faulty variant of _load_image_from_path: the history stacks are kept.
_load_image_from_path_KeepsHistory(w, path) ==
    IF ~path_exists(path) THEN status(w, "File not found")
    ELSE IF imread(path) = None THEN status(w, "Failed to load image")
    ELSE status(speak(display_image(
             [w EXCEPT !.current_image = imread(path),
                       !.original_image = imread(path),
                       !.zoom_level = [fit |-> FALSE, steps |-> 0],
                       !.has_unsaved_changes = FALSE,
                       !.recent_files = remembered(@, path)]),
             "Image loaded"), "Loaded")

_load_image_from_path(w, path) ==
    IF ~path_exists(path) THEN status(w, "File not found")
    ELSE IF imread(path) = None THEN status(w, "Failed to load image")
    ELSE status(speak(display_image(
             [w EXCEPT !.current_image = imread(path),
                       !.original_image = imread(path),
                       !.zoom_level = [fit |-> FALSE, steps |-> 0],
                       !.undo_stack = <<>>,
                       !.redo_stack = <<>>,
                       !.has_unsaved_changes = FALSE,
                       !.recent_files = remembered(@, path)]),
             "Image loaded"), "Loaded")

\* "Clear Recent" in the recent-files menu
clear_recent(w) == [w EXCEPT !.recent_files = <<>>]

\* save_image_dialog with a file name chosen and cv2.imwrite succeeding
save_image_dialog(w) ==
    IF w.current_image = None THEN status(w, "No image to save")
    ELSE status(speak([w EXCEPT !.has_unsaved_changes = FALSE], "Image saved"),
                "Saved")

(* Undo / redo *)

\* Faulty variants of save_image_state: no eviction; the newest entry evicted.
save_image_state_NoEvict(w) ==
    IF w.current_image # None
    THEN [w EXCEPT !.undo_stack = Append(w.undo_stack,
                                         compress_image(w.current_image)),
                   !.redo_stack = <<>>,
                   !.has_unsaved_changes = TRUE]
    ELSE w

save_image_state_EvictNewest(w) ==
    IF w.current_image # None
    THEN LET pushed == Append(w.undo_stack, compress_image(w.current_image))
         IN  [w EXCEPT !.undo_stack = IF Len(pushed) > max_stack_size
                                      THEN Front(pushed) ELSE pushed,
                       !.redo_stack = <<>>,
                       !.has_unsaved_changes = TRUE]
    ELSE w

\* Faulty variant of save_image_state: the redo stack is kept.
save_image_state_KeepsRedo(w) ==
    IF w.current_image # None
    THEN LET pushed == Append(w.undo_stack, compress_image(w.current_image))
         IN  [w EXCEPT !.undo_stack = IF Len(pushed) > max_stack_size
                                      THEN Tail(pushed) ELSE pushed,
                       !.has_unsaved_changes = TRUE]
    ELSE w

save_image_state(w) ==
    IF w.current_image # None
    THEN LET pushed == Append(w.undo_stack, compress_image(w.current_image))
         IN  [w EXCEPT !.undo_stack = IF Len(pushed) > max_stack_size
                                      THEN Tail(pushed) ELSE pushed,
                       !.redo_stack = <<>>,
                       !.has_unsaved_changes = TRUE]
    ELSE w

\* Faulty variants of undo: the oldest snapshot restored; the current frame
\* not kept for redo; an empty history clearing the redo stack.
undo_PopsBottom(w) ==
    IF w.undo_stack = <<>> THEN status(w, "Nothing to undo")
    ELSE IF w.current_image = None THEN w
    ELSE speak(display_image(
             [w EXCEPT !.redo_stack = Append(w.redo_stack,
                                             compress_image(w.current_image)),
                       !.current_image = decompress_image(Head(w.undo_stack)),
                       !.undo_stack = Tail(w.undo_stack)]),
             "Undo applied")

undo_DropsCurrent(w) ==
    IF w.undo_stack = <<>> THEN status(w, "Nothing to undo")
    ELSE IF w.current_image = None THEN w
    ELSE speak(display_image(
             [w EXCEPT !.redo_stack = Append(w.redo_stack, Last(w.undo_stack)),
                       !.current_image = decompress_image(Last(w.undo_stack)),
                       !.undo_stack = Front(w.undo_stack)]),
             "Undo applied")

undo_EmptyClearsRedo(w) ==
    IF w.undo_stack = <<>>
    THEN status([w EXCEPT !.redo_stack = <<>>], "Nothing to undo")
    ELSE IF w.current_image = None THEN w
    ELSE speak(display_image(
             [w EXCEPT !.redo_stack = Append(w.redo_stack,
                                             compress_image(w.current_image)),
                       !.current_image = decompress_image(Last(w.undo_stack)),
                       !.undo_stack = Front(w.undo_stack)]),
             "Undo applied")

undo(w) ==
    IF w.undo_stack = <<>> THEN status(w, "Nothing to undo")
    ELSE IF w.current_image = None THEN w    \* cv2.imencode(None) raises
    ELSE speak(display_image(
             [w EXCEPT !.redo_stack = Append(w.redo_stack,
                                             compress_image(w.current_image)),
                       !.current_image = decompress_image(Last(w.undo_stack)),
                       !.undo_stack = Front(w.undo_stack)]),
             "Undo applied")

\* Faulty variant of redo: the current frame is not pushed for undo.
redo_NoPush(w) ==
    IF w.redo_stack = <<>> THEN status(w, "Nothing to redo")
    ELSE IF w.current_image = None THEN w
    ELSE speak(display_image(
             [w EXCEPT !.current_image = decompress_image(Last(w.redo_stack)),
                       !.redo_stack = Front(w.redo_stack)]),
             "Redo applied")

redo(w) ==
    IF w.redo_stack = <<>> THEN status(w, "Nothing to redo")
    ELSE IF w.current_image = None THEN w    \* cv2.imencode(None) raises
    ELSE speak(display_image(
             [w EXCEPT !.undo_stack = Append(w.undo_stack,
                                             compress_image(w.current_image)),
                       !.current_image = decompress_image(Last(w.redo_stack)),
                       !.redo_stack = Front(w.redo_stack)]),
             "Redo applied")

(* Filters and transforms *)

\* Faulty variant of Filtered: the original shares the frame written.
Filtered_Aliased(w, img, msg) ==
    speak(display_image([save_image_state(w) EXCEPT !.current_image = img,
                                                    !.original_image = img]), msg)

\* The shape every filter and transform has: guard, snapshot, replace the
\* frame, refresh, announce.
Filtered(w, img, msg) ==
    speak(display_image([save_image_state(w) EXCEPT !.current_image = img]), msg)

\* cv2.cvtColor(..., COLOR_BGR2GRAY) when ndim = 3
apply_grayscale(w) ==
    IF ~_check_image(w) THEN NoImage(w)
    ELSE Filtered(w, BGR2GRAY(w.current_image), "Grayscale applied")

\* cv2.bitwise_not
apply_invert(w) ==
    IF ~_check_image(w) THEN NoImage(w)
    ELSE Filtered(w, bitwise_not(w.current_image), "Invert applied")

\* cv2.flip(img, 1): a uniform frame is its own mirror image
flip_horizontal(w) ==
    IF ~_check_image(w) THEN NoImage(w)
    ELSE Filtered(w, w.current_image, "Flipped horizontally")

\* cv2.GaussianBlur: the kernel weights sum to one, a uniform frame stays
apply_blur(w) ==
    IF ~_check_image(w) THEN NoImage(w)
    ELSE Filtered(w, w.current_image, "Blur applied")

\* cv2.filter2D with the sharpening kernel, whose weights sum to one
apply_sharpen(w) ==
    IF ~_check_image(w) THEN NoImage(w)
    ELSE Filtered(w, w.current_image, "Sharpen applied")

\* cv2.Canny: a uniform frame has no edge
apply_edge_detection(w) ==
    IF ~_check_image(w) THEN NoImage(w)
    ELSE Filtered(w, Gray(2, 0), "Edge detection applied")

apply_sepia(w) ==
    IF ~_check_image(w) THEN NoImage(w)
    ELSE Filtered(w, transform_sepia(w.current_image), "Sepia applied")

apply_histogram_equalization(w) ==
    IF ~_check_image(w) THEN NoImage(w)
    ELSE Filtered(w, IF w.current_image.ndim = 3
                     THEN YCrCb2BGR(BGR2YCrCb(w.current_image))
                     ELSE w.current_image,
                  "Histogram equalization applied")

\* cv2.adaptiveThreshold: every pixel exceeds its neighbourhood mean minus 2
apply_adaptive_thresholding(w) ==
    IF ~_check_image(w) THEN NoImage(w)
    ELSE Filtered(w, Gray(2, 255), "Adaptive threshold applied")

\* cv2.rotate, cv2.flip(img, 0): a uniform frame looks the same
rotate_left(w) ==
    IF ~_check_image(w) THEN NoImage(w)
    ELSE Filtered(w, w.current_image, "Rotated left")

rotate_right(w) ==
    IF ~_check_image(w) THEN NoImage(w)
    ELSE Filtered(w, w.current_image, "Rotated right")

flip_vertical(w) ==
    IF ~_check_image(w) THEN NoImage(w)
    ELSE Filtered(w, w.current_image, "Flipped vertically")

(* Zoom.  zoom_level is 1.25 ^ steps, times the scale that fits the image  *)
(* into the viewport when fit is set.  The limits 10.0 and 0.1 are more    *)
(* than ten steps from 1.0 and are not reached.                            *)

zoom_in(w) ==
    IF ~_check_image(w) THEN NoImage(w)
    ELSE CASE w.zoom_level.steps < 10 ->
             display_image([w EXCEPT !.zoom_level.steps = @ + 1])

zoom_out(w) ==
    IF ~_check_image(w) THEN NoImage(w)
    ELSE CASE w.zoom_level.steps > -10 ->
             display_image([w EXCEPT !.zoom_level.steps = @ - 1])

reset_zoom(w) ==
    IF ~_check_image(w) THEN NoImage(w)
    ELSE display_image([w EXCEPT !.zoom_level = [fit |-> FALSE, steps |-> 0]])

fit_to_window(w) ==
    IF ~_check_image(w) THEN NoImage(w)
    ELSE display_image([w EXCEPT !.zoom_level = [fit |-> TRUE, steps |-> 0]])

\* HelpDialog(self).exec(): modal, returns when the dialog is closed
show_help(w) == w

\* SpeechThread.stop_listening and TTSWorker.stop: the flags the workers'
\* loops test are cleared (the waits that follow give up after a timeout).
_cleanup(w) ==
    [w EXCEPT !.speech_thread.running = FALSE, !.tts_thread._running = FALSE]

\* close() delivers closeEvent; reply is the answer to the question asked
\* when there are unsaved changes.
closeEvent(w, reply) ==
    IF w.has_unsaved_changes /\ reply = "No" THEN w
    ELSE [_cleanup(w) EXCEPT !.closed = TRUE]

(* Adjustments *)

\* Faulty variant of apply_brightness: computed from the live frame.
apply_brightness_Compounds(w, value) ==
    IF ~_check_image(w) THEN NoImage(w)
    ELSE LET base == IF w.brightness_base = Absent
                     THEN w.current_image ELSE w.brightness_base
             v == clamp(value, -100, 100)
         IN  display_image([w EXCEPT !.brightness_base = base,
                                     !.current_image =
                                         convertScaleAbs(w.current_image, 100, v)])

\* Faulty variant of apply_brightness: the parameter is used as passed.
apply_brightness_NoClamp(w, value) ==
    IF ~_check_image(w) THEN NoImage(w)
    ELSE LET base == IF w.brightness_base = Absent
                     THEN w.current_image ELSE w.brightness_base
         IN  display_image([w EXCEPT !.brightness_base = base,
                                     !.current_image =
                                         convertScaleAbs(base, 100, value)])

apply_brightness(w, value) ==
    IF ~_check_image(w) THEN NoImage(w)
    ELSE LET base == IF w.brightness_base = Absent
                     THEN w.current_image ELSE w.brightness_base
             v == clamp(value, -100, 100)
         IN  display_image([w EXCEPT !.brightness_base = base,
                                     !.current_image = convertScaleAbs(base, 100, v)])

\* Faulty variant of apply_contrast: computed from the live frame.
apply_contrast_Compounds(w, value) ==
    IF ~_check_image(w) THEN NoImage(w)
    ELSE LET base == IF w.contrast_base = Absent
                     THEN w.current_image ELSE w.contrast_base
             v == clamp(value, 0, 200)
         IN  display_image([w EXCEPT !.contrast_base = base,
                                     !.current_image =
                                         convertScaleAbs(w.current_image, v, 0)])

apply_contrast(w, value) ==
    IF ~_check_image(w) THEN NoImage(w)
    ELSE LET base == IF w.contrast_base = Absent
                     THEN w.current_image ELSE w.contrast_base
             v == clamp(value, 0, 200)
         IN  display_image([w EXCEPT !.contrast_base = base,
                                     !.current_image = convertScaleAbs(base, v, 0)])

\* Faulty variant of apply_saturation: computed from a cached baseline.
apply_saturation_FromBaseline(w, value) ==
    IF ~_check_image(w) THEN NoImage(w)
    ELSE LET v == clamp(value, 0, 200)
             base == IF w.brightness_base = Absent
                     THEN w.current_image ELSE w.brightness_base
             hsv == BGR2HSV(base)
             scaled == [hsv EXCEPT !.s = clamp((hsv.s * v) \div 100, 0, 255)]
         IN  display_image([w EXCEPT !.current_image = HSV2BGR(scaled)])

apply_saturation(w, value) ==
    IF ~_check_image(w) THEN NoImage(w)
    ELSE LET v == clamp(value, 0, 200)
             img == IF w.current_image.ndim = 2
                    THEN to_bgr(w.current_image) ELSE w.current_image
             hsv == BGR2HSV(img)
             \* np.clip(s * (v / 100.0), 0, 255), truncated by astype(np.uint8)
             scaled == [hsv EXCEPT !.s = clamp((hsv.s * v) \div 100, 0, 255)]
         IN  display_image([w EXCEPT !.current_image = HSV2BGR(scaled)])

\* Faulty variant of apply_hue: the parameter is used as passed.
apply_hue_NoClamp(w, value) ==
    IF ~_check_image(w) THEN NoImage(w)
    ELSE LET img == IF w.current_image.ndim = 2
                    THEN to_bgr(w.current_image) ELSE w.current_image
             hsv == BGR2HSV(img)
             shifted == [hsv EXCEPT !.h = (hsv.h + value) % 180]
         IN  display_image([w EXCEPT !.current_image = HSV2BGR(shifted)])

apply_hue(w, value) ==
    IF ~_check_image(w) THEN NoImage(w)
    ELSE LET v == clamp(value, -180, 180)
             img == IF w.current_image.ndim = 2
                    THEN to_bgr(w.current_image) ELSE w.current_image
             hsv == BGR2HSV(img)
             shifted == [hsv EXCEPT !.h = (hsv.h + v) % 180]
         IN  display_image([w EXCEPT !.current_image = HSV2BGR(shifted)])

\* QSlider.setValue: the value is bounded to the slider's range and
\* valueChanged is emitted, running the connected slot, only if it changed.
brightness_slider_setValue(w, value) ==
    LET v == clamp(value, -100, 100)
    IN  IF v = w.brightness_slider THEN w
        ELSE apply_brightness([w EXCEPT !.brightness_slider = v], v)

contrast_slider_setValue(w, value) ==
    LET v == clamp(value, 0, 200)
    IN  IF v = w.contrast_slider THEN w
        ELSE apply_contrast([w EXCEPT !.contrast_slider = v], v)

saturation_slider_setValue(w, value) ==
    LET v == clamp(value, 0, 200)
    IN  IF v = w.saturation_slider THEN w
        ELSE apply_saturation([w EXCEPT !.saturation_slider = v], v)

apply_saturation_default(w) == saturation_slider_setValue(w, 150)

hue_slider_setValue(w, value) ==
    LET v == clamp(value, -180, 180)
    IN  IF v = w.hue_slider THEN w
        ELSE apply_hue([w EXCEPT !.hue_slider = v], v)

reset_adjustments(w) ==
    LET w1 == brightness_slider_setValue(w, 0)
        w2 == contrast_slider_setValue(w1, 100)
        w3 == saturation_slider_setValue(w2, 100)
        w4 == hue_slider_setValue(w3, 0)
    IN  [w4 EXCEPT !.brightness_base = Absent, !.contrast_base = Absent]

reset_image(w) ==
    IF w.original_image = None THEN status(w, "No original image")
    ELSE speak(display_image(
             [save_image_state(w) EXCEPT !.current_image = w.original_image]),
             "Image reset")

-----------------------------------------------------------------------------
(* Voice commands.  A string is a sequence of one-character strings. *)

Letters == <<"a", "b", "c", "d", "e", "f", "g", "h", "i", "j", "k", "l", "m", "n", "o", "p", "q", "r", "s", "t", "u", "v", "w", "x", "y", "z">>
Capitals == <<"A", "B", "C", "D", "E", "F", "G", "H", "I", "J", "K", "L", "M", "N", "O", "P", "Q", "R", "S", "T", "U", "V", "W", "X", "Y", "Z">>
Digits == <<"0", "1", "2", "3", "4", "5", "6", "7", "8", "9">>

\* str.lower and str.strip
lower_char(c) ==
    IF \E i \in 1..26 : Capitals[i] = c
    THEN Letters[CHOOSE i \in 1..26 : Capitals[i] = c]
    ELSE c
lower(s) == [i \in 1..Len(s) |-> lower_char(s[i])]

RECURSIVE strip(_)
strip(s) ==
    IF s = <<>> THEN s
    ELSE IF Head(s) = " " THEN strip(Tail(s))
    ELSE IF Last(s) = " " THEN strip(Front(s))
    ELSE s

(* fuzzywuzzy.fuzz.ratio: 100 * SequenceMatcher.ratio(), rounded, where     *)
(* ratio() is 2 * M / T, T the two lengths together and M the number of     *)
(* matched characters.  fuzzywuzzy takes its SequenceMatcher from           *)
(* python-Levenshtein when that package is installed (M is then the length  *)
(* of a longest common subsequence) and from difflib otherwise (M is the    *)
(* total size of the matching blocks, found longest block first).           *)
Matchers == {"difflib", "Levenshtein"}

\* One row of the longest-common-subsequence table: cur[j + 1] is the
\* length for the characters of a up to x and the first j characters of b.
RECURSIVE lcs_row(_, _, _, _)
lcs_row(x, b, prev, cur) ==
    IF Len(cur) = Len(b) + 1 THEN cur
    ELSE LET j == Len(cur)
         IN  lcs_row(x, b, prev,
                     Append(cur, IF x = b[j] THEN prev[j] + 1
                                 ELSE Max(prev[j + 1], cur[j])))

\* The rows one after the other (the test of the row's length has the row
\* computed before the next one is started).
RECURSIVE lcs_from(_, _, _, _)
lcs_from(a, b, i, prev) ==
    IF i > Len(a) \/ Len(prev) # Len(b) + 1 THEN prev[Len(b) + 1]
    ELSE lcs_from(a, b, i + 1, lcs_row(a[i], b, prev, <<0>>))

\* Levenshtein.ratio: (T - distance) / T with a substitution counted as 2,
\* that is 2 * lcs / T
Levenshtein_matches(a, b) == lcs_from(a, b, 1, [j \in 1..(Len(b) + 1) |-> 0])

\* Length of the common run of a from i and b from j, within the bounds.
RECURSIVE match_len(_, _, _, _, _, _)
match_len(a, b, i, j, ahi, bhi) ==
    IF i <= ahi /\ j <= bhi /\ a[i] = b[j]
    THEN 1 + match_len(a, b, i + 1, j + 1, ahi, bhi)
    ELSE 0

\* difflib.SequenceMatcher.find_longest_match on a[alo..ahi], b[blo..bhi]: a
\* longest matching block; of those the one starting earliest in a, and of
\* those the one starting earliest in b.
find_longest_match(a, b, alo, ahi, blo, bhi) ==
    LET len == [i \in alo..ahi, j \in blo..bhi |-> match_len(a, b, i, j, ahi, bhi)]
        sizes == {len[i, j] : i \in alo..ahi, j \in blo..bhi}
        size == CHOOSE k \in sizes : \A k2 \in sizes : k2 <= k
        besti == CHOOSE i \in alo..ahi :
                     /\ \E j \in blo..bhi : len[i, j] = size
                     /\ \A i2 \in alo..(i - 1) : \A j \in blo..bhi : len[i2, j] # size
        bestj == CHOOSE j \in blo..bhi :
                     /\ len[besti, j] = size
                     /\ \A j2 \in blo..(j - 1) : len[besti, j2] # size
    IN  [i |-> besti, j |-> bestj, size |-> size]

\* difflib.SequenceMatcher.get_matching_blocks: the longest block, then the
\* same to its left and to its right; the sizes added up.
RECURSIVE difflib_matches(_, _, _, _, _, _)
difflib_matches(a, b, alo, ahi, blo, bhi) ==
    IF alo > ahi \/ blo > bhi THEN 0
    ELSE LET m == find_longest_match(a, b, alo, ahi, blo, bhi)
         IN  IF m.size = 0 THEN 0
             ELSE m.size
                    + difflib_matches(a, b, alo, m.i - 1, blo, m.j - 1)
                    + difflib_matches(a, b, m.i + m.size, ahi, m.j + m.size, bhi)

\* Faulty variant of fuzz_ratio: only equal strings are similar.
fuzz_ratio_Exact(matcher, s1, s2) == IF s1 = s2 THEN 100 ELSE 0

fuzz_ratio(matcher, s1, s2) ==
    IF s1 = s2 THEN 100
    ELSE IF Len(s1) = 0 \/ Len(s2) = 0 THEN 0
    ELSE LET M == IF matcher = "Levenshtein" THEN Levenshtein_matches(s1, s2)
                  ELSE difflib_matches(s1, s2, 1, Len(s1), 1, Len(s2))
         IN  RoundHalfEven(200 * M, Len(s1) + Len(s2))

\* The dict `commands` of handle_command, in insertion order.
commands ==
    <<
       [key |-> <<"g", "r", "a", "y", "s", "c", "a", "l", "e">>,
        handler |-> "apply_grayscale"],
       [key |-> <<"b", "l", "u", "r">>,
        handler |-> "apply_blur"],
       [key |-> <<"s", "h", "a", "r", "p", "e", "n">>,
        handler |-> "apply_sharpen"],
       [key |-> <<"e", "d", "g", "e">>,
        handler |-> "apply_edge_detection"],
       [key |-> <<"s", "e", "p", "i", "a">>,
        handler |-> "apply_sepia"],
       [key |-> <<"i", "n", "v", "e", "r", "t">>,
        handler |-> "apply_invert"],
       [key |-> <<"h", "i", "s", "t", "o", "g", "r", "a", "m">>,
        handler |-> "apply_histogram_equalization"],
       [key |-> <<"a", "d", "a", "p", "t", "i", "v", "e">>,
        handler |-> "apply_adaptive_thresholding"],
       [key |-> <<"s", "a", "t", "u", "r", "a", "t", "i", "o", "n">>,
        handler |-> "apply_saturation_default"],
       [key |-> <<"r", "o", "t", "a", "t", "e", " ", "l", "e", "f", "t">>,
        handler |-> "rotate_left"],
       [key |-> <<"r", "o", "t", "a", "t", "e", " ", "r", "i", "g", "h", "t">>,
        handler |-> "rotate_right"],
       [key |-> <<"f", "l", "i", "p", " ", "h", "o", "r", "i", "z", "o", "n", "t", "a", "l">>,
        handler |-> "flip_horizontal"],
       [key |-> <<"f", "l", "i", "p", " ", "v", "e", "r", "t", "i", "c", "a", "l">>,
        handler |-> "flip_vertical"],
       [key |-> <<"z", "o", "o", "m", " ", "i", "n">>,
        handler |-> "zoom_in"],
       [key |-> <<"z", "o", "o", "m", " ", "o", "u", "t">>,
        handler |-> "zoom_out"],
       [key |-> <<"r", "e", "s", "e", "t", " ", "z", "o", "o", "m">>,
        handler |-> "reset_zoom"],
       [key |-> <<"f", "i", "t">>,
        handler |-> "fit_to_window"],
       [key |-> <<"u", "n", "d", "o">>,
        handler |-> "undo"],
       [key |-> <<"r", "e", "d", "o">>,
        handler |-> "redo"],
       [key |-> <<"r", "e", "s", "e", "t">>,
        handler |-> "reset_image"],
       [key |-> <<"h", "e", "l", "p">>,
        handler |-> "show_help"],
       [key |-> <<"e", "x", "i", "t">>,
        handler |-> "close"]
    >>

\* The loop over commands.keys(): the index of best_match (0: None) after
\* the keys from k on, given the best so far.
RECURSIVE best_match_from(_, _, _, _, _)
best_match_from_LastWins(matcher, cmd, k, best_match, best_score) ==
    IF k > Len(commands) THEN best_match
    ELSE LET score == fuzz_ratio(matcher, cmd, commands[k].key)
         IN  IF score > 75 /\ score >= best_score
             THEN best_match_from(matcher, cmd, k + 1, k, score)
             ELSE best_match_from(matcher, cmd, k + 1, best_match, best_score)

best_match_from(matcher, cmd, k, best_match, best_score) ==
    IF k > Len(commands) THEN best_match
    ELSE LET score == fuzz_ratio(matcher, cmd, commands[k].key)
         IN  IF score > 75 /\ score > best_score
             THEN best_match_from(matcher, cmd, k + 1, k, score)
             ELSE best_match_from(matcher, cmd, k + 1, best_match, best_score)

(* _compile_patterns: word alternatives followed by \s*(?:by)?\s*(-?\d+) *)
re_brightness == <<<<"b", "r", "i", "g", "h", "t", "n", "e", "s", "s">>,
                   <<"b", "r", "i", "g", "h", "t", "e", "n">>>>
re_contrast == <<<<"c", "o", "n", "t", "r", "a", "s", "t">>>>
re_saturation == <<<<"s", "a", "t", "u", "r", "a", "t", "i", "o", "n">>,
                   <<"s", "a", "t", "u", "r", "a", "t", "e">>>>
re_hue == <<<<"h", "u", "e">>>>

is_digit(c) == \E d \in 1..10 : Digits[d] = c
has_prefix(s, i, word) ==
    /\ i + Len(word) - 1 <= Len(s)
    /\ \A k \in 1..Len(word) : s[i + k - 1] = word[k]

RECURSIVE skip_spaces(_, _)
skip_spaces(s, i) ==
    IF i <= Len(s) /\ s[i] = " " THEN skip_spaces(s, i + 1) ELSE i

RECURSIVE skip_digits(_, _)
skip_digits(s, i) ==
    IF i <= Len(s) /\ is_digit(s[i]) THEN skip_digits(s, i + 1) ELSE i

\* int() of the digits s[i..j]
RECURSIVE int(_, _, _)
int(s, i, j) ==
    IF j < i THEN 0
    ELSE 10 * int(s, i, j - 1) + (CHOOSE d \in 1..10 : Digits[d] = s[j]) - 1

\* \s*(?:by)?\s*(-?\d+) matched at position i of s: the number, if any.
match_number(s, i) ==
    LET i1 == skip_spaces(s, i)
        i2 == IF has_prefix(s, i1, <<"b", "y">>) THEN i1 + 2 ELSE i1
        i3 == skip_spaces(s, i2)
        neg == i3 <= Len(s) /\ s[i3] = "-"
        i4 == IF neg THEN i3 + 1 ELSE i3
        i5 == skip_digits(s, i4)
    IN  IF i5 = i4 THEN [found |-> FALSE, value |-> 0]
        ELSE [found |-> TRUE,
              value |-> IF neg THEN -int(s, i4, i5 - 1) ELSE int(s, i4, i5 - 1)]

\* pattern.search(s): the leftmost position where one of the words, tried in
\* order, is followed by a number; int(m.group(1)) is that number.
match_at(words, s, i) ==
    IF \E n \in 1..Len(words) :
           has_prefix(s, i, words[n]) /\ match_number(s, i + Len(words[n])).found
    THEN LET n == CHOOSE n \in 1..Len(words) :
                      /\ has_prefix(s, i, words[n])
                      /\ match_number(s, i + Len(words[n])).found
                      /\ \A n2 \in 1..(n - 1) :
                             ~(has_prefix(s, i, words[n2])
                               /\ match_number(s, i + Len(words[n2])).found)
         IN  match_number(s, i + Len(words[n]))
    ELSE [found |-> FALSE, value |-> 0]

re_search(words, s) ==
    IF \E i \in 1..Len(s) : match_at(words, s, i).found
    THEN match_at(words, s, CHOOSE i \in 1..Len(s) :
                                /\ match_at(words, s, i).found
                                /\ \A i2 \in 1..(i - 1) : ~match_at(words, s, i2).found)
    ELSE [found |-> FALSE, value |-> 0]

(* Utterances *)

\* "grey scale"
GreyScale == <<"g", "r", "e", "y", " ", "s", "c", "a", "l", "e">>

\* "xyzzy"
Xyzzy == <<"x", "y", "z", "z", "y">>

\* "brightness by 50"
BrightnessBy50 == <<"b", "r", "i", "g", "h", "t", "n", "e", "s", "s", " ", "b", "y", " ", "5", "0">>

\* "contrast by 50"
ContrastBy50 == <<"c", "o", "n", "t", "r", "a", "s", "t", " ", "b", "y", " ", "5", "0">>

\* "saturation by 50"
SaturationBy50 == <<"s", "a", "t", "u", "r", "a", "t", "i", "o", "n", " ", "b", "y", " ", "5", "0">>

\* "hue by 50"
HueBy50 == <<"h", "u", "e", " ", "b", "y", " ", "5", "0">>

\* "set brightness by 50"
SetBrightnessBy50 ==
    <<"s", "e", "t", " ", "b", "r", "i", "g", "h", "t", "n", "e", "s", "s",
      " ", "b", "y", " ", "5", "0">>

\* "contrast 20 brightness -30"
ContrastThenBrightness ==
    <<"c", "o", "n", "t", "r", "a", "s", "t", " ", "2", "0", " ", "b", "r",
      "i", "g", "h", "t", "n", "e", "s", "s", " ", "-", "3", "0">>

\* "unredo"
Unredo == <<"u", "n", "r", "e", "d", "o">>

\* "blux"
Blux == <<"b", "l", "u", "x">>

\* " Undo "
PaddedUndo == <<" ", "U", "n", "d", "o", " ">>

\* "restevt"
Restevt == <<"r", "e", "s", "t", "e", "v", "t">>

\* "edge detection"
EdgeDetection == <<"e", "d", "g", "e", " ", "d", "e", "t", "e", "c", "t", "i", "o", "n">>

\* "histogram equalization"
HistogramEqualization ==
    <<"h", "i", "s", "t", "o", "g", "r", "a", "m", " ", "e", "q", "u", "a",
      "l", "i", "z", "a", "t", "i", "o", "n">>

\* "adaptive threshold"
AdaptiveThreshold ==
    <<"a", "d", "a", "p", "t", "i", "v", "e", " ", "t", "h", "r", "e", "s",
      "h", "o", "l", "d">>

\* "reset image"
SayResetImage == <<"r", "e", "s", "e", "t", " ", "i", "m", "a", "g", "e">>

\* The zero-argument voice commands the Help dialog lists, with the handler
\* of the operation each one names.
HelpCommands ==
    <<
       [said |-> <<"g", "r", "a", "y", "s", "c", "a", "l", "e">>,
        handler |-> "apply_grayscale"],
       [said |-> <<"b", "l", "u", "r">>,
        handler |-> "apply_blur"],
       [said |-> <<"s", "h", "a", "r", "p", "e", "n">>,
        handler |-> "apply_sharpen"],
       [said |-> EdgeDetection,
        handler |-> "apply_edge_detection"],
       [said |-> <<"s", "e", "p", "i", "a">>,
        handler |-> "apply_sepia"],
       [said |-> <<"i", "n", "v", "e", "r", "t">>,
        handler |-> "apply_invert"],
       [said |-> HistogramEqualization,
        handler |-> "apply_histogram_equalization"],
       [said |-> AdaptiveThreshold,
        handler |-> "apply_adaptive_thresholding"],
       [said |-> <<"r", "o", "t", "a", "t", "e", " ", "l", "e", "f", "t">>,
        handler |-> "rotate_left"],
       [said |-> <<"r", "o", "t", "a", "t", "e", " ", "r", "i", "g", "h", "t">>,
        handler |-> "rotate_right"],
       [said |-> <<"f", "l", "i", "p", " ", "h", "o", "r", "i", "z", "o", "n", "t", "a", "l">>,
        handler |-> "flip_horizontal"],
       [said |-> <<"f", "l", "i", "p", " ", "v", "e", "r", "t", "i", "c", "a", "l">>,
        handler |-> "flip_vertical"],
       [said |-> <<"z", "o", "o", "m", " ", "i", "n">>,
        handler |-> "zoom_in"],
       [said |-> <<"z", "o", "o", "m", " ", "o", "u", "t">>,
        handler |-> "zoom_out"],
       [said |-> <<"r", "e", "s", "e", "t", " ", "z", "o", "o", "m">>,
        handler |-> "reset_zoom"],
       [said |-> <<"f", "i", "t">>,
        handler |-> "fit_to_window"],
       [said |-> <<"u", "n", "d", "o">>,
        handler |-> "undo"],
       [said |-> <<"r", "e", "d", "o">>,
        handler |-> "redo"],
       [said |-> SayResetImage,
        handler |-> "reset_image"],
       [said |-> <<"h", "e", "l", "p">>,
        handler |-> "show_help"],
       [said |-> <<"e", "x", "i", "t">>,
        handler |-> "close"]
    >>

\* The adjustments the Help dialog lists, "<name> by [X]", with X = 50.
HelpAdjustments ==
    <<[said |-> BrightnessBy50, slider |-> "brightness_slider"],
      [said |-> ContrastBy50, slider |-> "contrast_slider"],
      [said |-> SaturationBy50, slider |-> "saturation_slider"],
      [said |-> HueBy50, slider |-> "hue_slider"]>>

\* What the speech recognizer delivers in the sessions explored.
Utterances ==
    {GreyScale, Xyzzy, BrightnessBy50, ContrastBy50, SaturationBy50, HueBy50,
     ContrastThenBrightness, Unredo, Blux, PaddedUndo, Restevt, EdgeDetection,
     HelpCommands[5].said, HelpCommands[6].said, HelpCommands[13].said,
     HelpCommands[21].said}

Phrases ==
    Utterances \cup {HelpCommands[n].said : n \in 1..Len(HelpCommands)}
              \cup {HelpAdjustments[n].said : n \in 1..Len(HelpAdjustments)}
              \cup {SetBrightnessBy50}

\* What handle_command resolves an utterance to: the handler of the best
\* matching key, or the slider of the first pattern found with the number
\* extracted, or nothing.
Unrecognized == [kind |-> "none", target |-> "not recognized", value |-> 0]
Adjustment(slider, m) == [kind |-> "adjustment", target |-> slider, value |-> m.value]

\* Faulty variant of interpret: the patterns are tried hue first.
interpret_HueFirst(matcher, command) ==
    LET cmd == lower(strip(command))
        best_match == best_match_from(matcher, cmd, 1, 0, 0)
    IN  IF best_match # 0
        THEN [kind |-> "command", target |-> commands[best_match].handler, value |-> 0]
        ELSE IF re_search(re_hue, cmd).found
        THEN Adjustment("hue_slider", re_search(re_hue, cmd))
        ELSE IF re_search(re_saturation, cmd).found
        THEN Adjustment("saturation_slider", re_search(re_saturation, cmd))
        ELSE IF re_search(re_contrast, cmd).found
        THEN Adjustment("contrast_slider", re_search(re_contrast, cmd))
        ELSE IF re_search(re_brightness, cmd).found
        THEN Adjustment("brightness_slider", re_search(re_brightness, cmd))
        ELSE Unrecognized

interpret(matcher, command) ==
    LET cmd == lower(strip(command))
        best_match == best_match_from(matcher, cmd, 1, 0, 0)
    IN  IF best_match # 0
        THEN [kind |-> "command", target |-> commands[best_match].handler, value |-> 0]
        ELSE IF re_search(re_brightness, cmd).found
        THEN Adjustment("brightness_slider", re_search(re_brightness, cmd))
        ELSE IF re_search(re_contrast, cmd).found
        THEN Adjustment("contrast_slider", re_search(re_contrast, cmd))
        ELSE IF re_search(re_saturation, cmd).found
        THEN Adjustment("saturation_slider", re_search(re_saturation, cmd))
        ELSE IF re_search(re_hue, cmd).found
        THEN Adjustment("hue_slider", re_search(re_hue, cmd))
        ELSE Unrecognized

\* commands[best_match]() and the setValue calls; reply answers the question
\* closeEvent asks.
dispatch(w, action, reply) ==
    CASE action.target = "apply_grayscale" -> apply_grayscale(w)
      [] action.target = "apply_blur" -> apply_blur(w)
      [] action.target = "apply_sharpen" -> apply_sharpen(w)
      [] action.target = "apply_edge_detection" -> apply_edge_detection(w)
      [] action.target = "apply_sepia" -> apply_sepia(w)
      [] action.target = "apply_invert" -> apply_invert(w)
      [] action.target = "apply_histogram_equalization" ->
             apply_histogram_equalization(w)
      [] action.target = "apply_adaptive_thresholding" ->
             apply_adaptive_thresholding(w)
      [] action.target = "apply_saturation_default" -> apply_saturation_default(w)
      [] action.target = "rotate_left" -> rotate_left(w)
      [] action.target = "rotate_right" -> rotate_right(w)
      [] action.target = "flip_horizontal" -> flip_horizontal(w)
      [] action.target = "flip_vertical" -> flip_vertical(w)
      [] action.target = "zoom_in" -> zoom_in(w)
      [] action.target = "zoom_out" -> zoom_out(w)
      [] action.target = "reset_zoom" -> reset_zoom(w)
      [] action.target = "fit_to_window" -> fit_to_window(w)
      [] action.target = "undo" -> undo(w)
      [] action.target = "redo" -> redo(w)
      [] action.target = "reset_image" -> reset_image(w)
      [] action.target = "show_help" -> show_help(w)
      [] action.target = "close" -> closeEvent(w, reply)
      [] action.target = "brightness_slider" ->
             brightness_slider_setValue(w, action.value)
      [] action.target = "contrast_slider" -> contrast_slider_setValue(w, action.value)
      [] action.target = "saturation_slider" ->
             saturation_slider_setValue(w, action.value)
      [] action.target = "hue_slider" -> hue_slider_setValue(w, action.value)
      [] action.target = "not recognized" -> status(w, "Command not recognized")

\* Faulty variant of log_command: the newest entry is dropped.
log_command_DropsNewest(w, command) ==
    LET history == Append(w.command_history, command)
    IN  status([w EXCEPT !.command_history =
                             IF Len(history) > max_history_size
                             THEN Front(history) ELSE history],
               "Heard command")

\* The utterance is appended to the history, the oldest entry dropped beyond
\* max_history_size, and shown in the status line.
log_command(w, command) ==
    LET history == Append(w.command_history, command)
    IN  status([w EXCEPT !.command_history =
                             IF Len(history) > max_history_size
                             THEN Tail(history) ELSE history],
               "Heard command")

\* interpret on the phrases explored, computed once.
interpretation == [matcher \in Matchers, command \in Phrases |->
                      interpret(matcher, command)]

\* Faulty variant of handle_command: an utterance that is not recognized
\* resets the zoom.
handle_command_ResetsZoom(w, command, reply) ==
    LET action == interpretation[w.SequenceMatcher, command]
        w1 == dispatch(log_command(w, command), action, reply)
    IN  IF action = Unrecognized
        THEN [w1 EXCEPT !.zoom_level = [fit |-> FALSE, steps |-> 0]]
        ELSE w1

\* Faulty variant of handle_command: an utterance that is not recognized
\* repeats the command logged before it.
handle_command_RepeatsLast(w, command, reply) ==
    LET action == interpretation[w.SequenceMatcher, command]
    IN  IF action = Unrecognized /\ w.command_history # <<>>
        THEN dispatch(log_command(w, command),
                      interpretation[w.SequenceMatcher, Last(w.command_history)],
                      reply)
        ELSE dispatch(log_command(w, command), action, reply)

handle_command(w, command, reply) ==
    dispatch(log_command(w, command),
             interpretation[w.SequenceMatcher, command], reply)

-----------------------------------------------------------------------------
(* Threads.  Signals of the workers are connected to slots of the window,  *)
(* which lives in the control thread: an emit from a worker posts an event *)
(* to the control thread's queue, and the slot runs when the event loop    *)
(* takes it.                                                               *)

\* What recognize_google(...).lower() returns, and its characters.
SpokenTexts == {"invert", "sepia"}
Chars(text) ==
    CASE text = "invert" -> HelpCommands[6].said
      [] text = "sepia" -> HelpCommands[5].said

\* Faulty variant of emit: a recognized text is handled by the emitting
\* thread itself.
emit_Direct(w, signal, arg) ==
    IF signal = "command_signal" THEN handle_command(w, Chars(arg), "No")
    ELSE [w EXCEPT !.event_queue = Append(@, [signal |-> signal, arg |-> arg])]

\* Signal.emit from a worker thread (queued connection)
emit(w, signal, arg) ==
    [w EXCEPT !.event_queue = Append(@, [signal |-> signal, arg |-> arg])]

at(w, pc) == [w EXCEPT !.speech_thread.pc = pc]

(* SpeechThread.run, one operator per stretch between blocking calls *)

\* sr.Microphone()
run_microphone(w, ok) ==
    IF ok THEN at(emit(w, "status_signal", "Ready"), "calibrate")
    ELSE at(emit(w, "error_signal", "Microphone error"), "failed")

\* with self.microphone as source, up to adjust_for_ambient_noise
run_calibrate(w, ok) ==
    IF ok THEN at(emit(w, "status_signal", "Calibrating..."), "adjust")
    ELSE at(emit(w, "error_signal", "Calibration failed"), "failed")

\* adjust_for_ambient_noise returns or raises
run_adjust(w, ok) ==
    IF ok THEN at(emit(w, "status_signal", "Ready"), "loop")
    ELSE at(emit(w, "error_signal", "Calibration failed"), "failed")

\* Faulty variant of run_loop: the flag is not tested.
run_loop_Deaf(w, ok) ==
    IF ok THEN at(emit(w, "status_signal", "Listening..."), "listen")
    ELSE at(emit(w, "error_signal", "Error"), "sleep")

\* while self.running, up to recognizer.listen
run_loop(w, ok) ==
    IF ~w.speech_thread.running THEN at(w, "returned")
    ELSE IF ok THEN at(emit(w, "status_signal", "Listening..."), "listen")
    ELSE at(emit(w, "error_signal", "Error"), "sleep")

ListenOutcomes == {"audio", "WaitTimeoutError", "Exception"}

\* recognizer.listen returns or raises
run_listen(w, outcome) ==
    CASE outcome = "audio" -> at(emit(w, "status_signal", "Processing..."), "recognize")
      [] outcome = "WaitTimeoutError" -> at(w, "loop")
      [] outcome = "Exception" -> at(emit(w, "error_signal", "Error"), "sleep")

RecognizeFailures == {"UnknownValueError", "RequestError", "Exception"}

\* Faulty variant of run_recognize: a request error ends the loop.
run_recognize_GivesUp(w, outcome) ==
    CASE outcome \in SpokenTexts -> at(emit(w, "command_signal", outcome), "loop")
      [] outcome = "UnknownValueError" ->
             at(emit(w, "error_signal", "Could not understand"), "loop")
      [] outcome = "RequestError" -> at(emit(w, "error_signal", "API error"), "returned")
      [] outcome = "Exception" -> at(emit(w, "error_signal", "Error"), "sleep")

\* recognize_google returns a text or raises
run_recognize(w, outcome) ==
    CASE outcome \in SpokenTexts -> at(emit(w, "command_signal", outcome), "loop")
      [] outcome = "UnknownValueError" ->
             at(emit(w, "error_signal", "Could not understand"), "loop")
      [] outcome = "RequestError" -> at(emit(w, "error_signal", "API error"), "sleep")
      [] outcome = "Exception" -> at(emit(w, "error_signal", "Error"), "sleep")

\* msleep returns
run_wake(w) == at(w, "loop")

\* run has returned, early ("failed") or from its loop ("returned"); the
\* thread finishes, and isRunning() is false from then
run_finished(w) == at(w, "finished")

\* TTSWorker.run up to its loop: pyttsx3.init() returns or raises
TTSWorker_run(w, ok) ==
    [w EXCEPT !.tts_thread.pc = IF ok THEN "loop" ELSE "finished"]

(* Slots of the window *)

start_listening(w) ==
    [w EXCEPT !.speech_thread =
                  [running |-> TRUE,
                   pc |-> IF @.pc \in {"idle", "finished"} THEN "microphone" ELSE @.pc]]

stop_listening(w) == [w EXCEPT !.speech_thread.running = FALSE]

\* isRunning() is true from start() until the thread has finished.
\* The button is checkable: a click flips it and calls toggle_voice.
toggle_voice(w, checked) ==
    IF checked
    THEN speak(start_listening(
             [w EXCEPT !.voice_button = [checked |-> TRUE, text |-> "Listening..."]]),
             "Voice control activated")
    ELSE speak(stop_listening(
             [w EXCEPT !.voice_button = [checked |-> FALSE, text |-> "Voice Control"]]),
             "Voice control deactivated")

on_speech_error(w, error) == status(w, error)

on_speech_status(w, s) ==
    IF w.voice_button.checked THEN [w EXCEPT !.voice_button.text = s] ELSE w

\* Faulty variant of deliver: the newest event is taken.
deliver_Newest(w, reply) ==
    LET event == Last(w.event_queue)
        w1 == [w EXCEPT !.event_queue = Front(@)]
    IN  CASE event.signal = "command_signal" ->
                 handle_command(w1, Chars(event.arg), reply)
          [] event.signal = "error_signal" -> on_speech_error(w1, event.arg)
          [] event.signal = "status_signal" -> on_speech_status(w1, event.arg)

\* The event loop takes the oldest event and runs the slot connected to it.
\* show_help and closeEvent open a dialog whose own event loop takes events
\* too; neither touches the window once its dialog has returned, so a slot
\* is one step.
deliver(w, reply) ==
    LET event == Head(w.event_queue)
        w1 == [w EXCEPT !.event_queue = Tail(@)]
    IN  CASE event.signal = "command_signal" ->
                 handle_command(w1, Chars(event.arg), reply)
          [] event.signal = "error_signal" -> on_speech_error(w1, event.arg)
          [] event.signal = "status_signal" -> on_speech_status(w1, event.arg)

-----------------------------------------------------------------------------
(* The event loop runs one handler at a time. *)

Init ==
    /\ win = InitWindow
    /\ op = "init"
    /\ nops = 0

\* One more handler runs, within the exploration bound.
Tick == nops < MaxOps /\ nops' = nops + 1

\* Handler `name` has run and left the window as w.
Ran(name, w) == win' = w /\ op' = name

LoadImage ==
    \E path \in Paths :
        /\ Tick
        /\ Ran("load", _load_image_from_path(win, path))
SaveImage ==
    /\ Tick
    /\ Ran("save", save_image_dialog(win))
Undo ==
    /\ Tick
    /\ Ran("undo", undo(win))
Redo ==
    /\ Tick
    /\ Ran("redo", redo(win))
Grayscale ==
    /\ Tick
    /\ Ran("apply_grayscale", apply_grayscale(win))
Invert ==
    /\ Tick
    /\ Ran("apply_invert", apply_invert(win))
FlipHorizontal ==
    /\ Tick
    /\ Ran("flip_horizontal", flip_horizontal(win))
\* The user drags a slider (or a voice command sets it) to another value.
MoveBrightness ==
    \E v \in BrightnessValues :
        /\ Tick
        /\ v # win.brightness_slider
        /\ Ran("apply_brightness", brightness_slider_setValue(win, v))
MoveContrast ==
    \E v \in ContrastValues :
        /\ Tick
        /\ v # win.contrast_slider
        /\ Ran("apply_contrast", contrast_slider_setValue(win, v))
MoveSaturation ==
    \E v \in SaturationValues :
        /\ Tick
        /\ v # win.saturation_slider
        /\ Ran("apply_saturation", saturation_slider_setValue(win, v))
MoveHue ==
    \E v \in HueValues :
        /\ Tick
        /\ v # win.hue_slider
        /\ Ran("apply_hue", hue_slider_setValue(win, v))
ResetAdjustments ==
    /\ Tick
    /\ Ran("reset_adjustments", reset_adjustments(win))
ResetImage ==
    /\ Tick
    /\ Ran("reset_image", reset_image(win))

Next ==
    \/ LoadImage
    \/ SaveImage
    \/ Undo
    \/ Redo
    \/ Grayscale
    \/ Invert
    \/ FlipHorizontal
    \/ MoveBrightness
    \/ MoveContrast
    \/ MoveSaturation
    \/ MoveHue
    \/ ResetAdjustments
    \/ ResetImage

Spec == Init /\ [][Next]_vars

(***************************************************************************)
(* Long editing sessions.  SpecDeep runs the handlers that fill, trim and  *)
(* walk the history stacks without a bound on their number, so that the    *)
(* stacks reach max_stack_size and snapshots are evicted.                  *)
(***************************************************************************)
DeepLoad ==
    \E path \in Paths :
        /\ Ran("load", _load_image_from_path(win, path))
        /\ UNCHANGED nops
DeepInvert ==
    /\ Ran("apply_invert", apply_invert(win))
    /\ UNCHANGED nops
DeepUndo ==
    /\ Ran("undo", undo(win))
    /\ UNCHANGED nops
DeepRedo ==
    /\ Ran("redo", redo(win))
    /\ UNCHANGED nops

NextDeep ==
    \/ DeepLoad
    \/ DeepInvert
    \/ DeepUndo
    \/ DeepRedo

SpecDeep == Init /\ [][NextDeep]_vars

(***************************************************************************)
(* Colour sessions.  SpecColour loads colour images and runs the four      *)
(* adjustments through their sliders, asked for values inside and outside  *)
(* the slider ranges, and the reset of the adjustments.  None of these     *)
(* handlers takes a snapshot.                                              *)
(***************************************************************************)
ColourTick == nops < MaxAdjust /\ nops' = nops + 1

ColourLoad ==
    \E path \in ColourPaths :
        /\ ColourTick
        /\ Ran("load", _load_image_from_path(win, path))
ColourBrightness ==
    \E v \in ColourBrightnessValues :
        /\ ColourTick
        /\ clamp(v, -100, 100) # win.brightness_slider
        /\ Ran("apply_brightness", brightness_slider_setValue(win, v))
ColourContrast ==
    \E v \in ColourContrastValues :
        /\ ColourTick
        /\ clamp(v, 0, 200) # win.contrast_slider
        /\ Ran("apply_contrast", contrast_slider_setValue(win, v))
ColourSaturation ==
    \E v \in ColourSaturationValues :
        /\ ColourTick
        /\ clamp(v, 0, 200) # win.saturation_slider
        /\ Ran("apply_saturation", saturation_slider_setValue(win, v))
ColourHue ==
    \E v \in ColourHueValues :
        /\ ColourTick
        /\ clamp(v, -180, 180) # win.hue_slider
        /\ Ran("apply_hue", hue_slider_setValue(win, v))
ColourResetAdjustments ==
    /\ ColourTick
    /\ Ran("reset_adjustments", reset_adjustments(win))

NextColour ==
    \/ ColourLoad
    \/ ColourBrightness
    \/ ColourContrast
    \/ ColourSaturation
    \/ ColourHue
    \/ ColourResetAdjustments

SpecColour == Init /\ [][NextColour]_vars

(***************************************************************************)
(* Voice sessions.  SpecVoice loads images and handles the utterances the  *)
(* speech thread delivers (command_signal is connected to                 *)
(* handle_command), with either SequenceMatcher behind fuzz.ratio.  op is  *)
(* what the utterance was dispatched to.                                   *)
(***************************************************************************)
InitVoice ==
    /\ win \in {[InitWindow EXCEPT !.SequenceMatcher = m] : m \in Matchers}
    /\ op = "init"
    /\ nops = 0

VoiceTick == nops < MaxHeard /\ nops' = nops + 1

VoiceLoad ==
    \E path \in {"a.png", "sage.png"} :
        /\ ~win.closed
        /\ VoiceTick
        /\ Ran("load", _load_image_from_path(win, path))
VoiceCommand ==
    \E command \in Utterances, reply \in {"Yes", "No"} :
        /\ ~win.closed
        /\ VoiceTick
        /\ Ran(interpretation[win.SequenceMatcher, command].target,
               handle_command(win, command, reply))

NextVoice ==
    \/ VoiceLoad
    \/ VoiceCommand

SpecVoice == InitVoice /\ [][NextVoice]_vars

(***************************************************************************)
(* Long voice sessions.  SpecLog handles more utterances than the command  *)
(* history holds, one that is recognized ("help") and one that is not.     *)
(***************************************************************************)
LogUtterances == {Xyzzy, HelpCommands[20].said}

LogTick == nops < MaxLogged /\ nops' = nops + 1

LogCommand ==
    \E command \in LogUtterances :
        /\ LogTick
        /\ Ran(interpretation[win.SequenceMatcher, command].target,
               handle_command(win, command, "No"))

NextLog == LogCommand

SpecLog == Init /\ [][NextLog]_vars

(***************************************************************************)
(* Sessions with a failing snapshot store.  In SpecFault the snapshot on   *)
(* top of a history stack can become undecodable between the handlers, so  *)
(* that the decompression in undo and redo fails.                          *)
(***************************************************************************)
FaultTick == nops < MaxFaulty /\ nops' = nops + 1

FaultLoad ==
    \E path \in {"a.png", "sage.png"} :
        /\ FaultTick
        /\ Ran("load", _load_image_from_path(win, path))
FaultInvert ==
    /\ FaultTick
    /\ Ran("apply_invert", apply_invert(win))
FaultUndo ==
    /\ FaultTick
    /\ Ran("undo", undo(win))
FaultRedo ==
    /\ FaultTick
    /\ Ran("redo", redo(win))
DamageUndoTop ==
    /\ FaultTick
    /\ win.undo_stack # <<>>
    /\ Last(win.undo_stack) # Undecodable
    /\ Ran("damage", [win EXCEPT !.undo_stack[Len(win.undo_stack)] = Undecodable])
DamageRedoTop ==
    /\ FaultTick
    /\ win.redo_stack # <<>>
    /\ Last(win.redo_stack) # Undecodable
    /\ Ran("damage", [win EXCEPT !.redo_stack[Len(win.redo_stack)] = Undecodable])

NextFault ==
    \/ FaultLoad
    \/ FaultInvert
    \/ FaultUndo
    \/ FaultRedo
    \/ DamageUndoTop
    \/ DamageRedoTop

SpecFault == Init /\ [][NextFault]_vars

(***************************************************************************)
(* The window with its workers.  In SpecThreads the steps of the speech    *)
(* thread and of the text-to-speech thread interleave with the handlers    *)
(* the control thread runs.  op is the handler or thread procedure that    *)
(* took the step.                                                          *)
(***************************************************************************)
Act == nops < MaxActs /\ nops' = nops + 1

\* A step of a worker that leaves the window as w; its status and error
\* emits need room in the queue.
Worked(name, w) ==
    /\ Len(SelectSeq(w.event_queue, LAMBDA event : event.signal # "command_signal"))
           <= MaxPending
    /\ Ran(name, w)

ThreadsLoad ==
    /\ ~win.closed
    /\ Act
    /\ Ran("load", _load_image_from_path(win, "a.png"))
ThreadsToggleVoice ==
    /\ ~win.closed
    /\ Act
    /\ Ran("toggle_voice", toggle_voice(win, ~win.voice_button.checked))
ThreadsDeliver ==
    /\ ~win.closed
    /\ win.event_queue # <<>>
    /\ Ran(Head(win.event_queue).signal, deliver(win, "No"))
    /\ UNCHANGED nops
SpeechMicrophone ==
    \E ok \in BOOLEAN :
        /\ win.speech_thread.pc = "microphone"
        /\ Worked("SpeechThread.run", run_microphone(win, ok))
        /\ UNCHANGED nops
SpeechCalibrate ==
    \E ok \in BOOLEAN :
        /\ win.speech_thread.pc = "calibrate"
        /\ Worked("SpeechThread.run", run_calibrate(win, ok))
        /\ UNCHANGED nops
SpeechAdjust ==
    \E ok \in BOOLEAN :
        /\ win.speech_thread.pc = "adjust"
        /\ Worked("SpeechThread.run", run_adjust(win, ok))
        /\ UNCHANGED nops
SpeechLoop ==
    \E ok \in BOOLEAN :
        /\ win.speech_thread.pc = "loop"
        /\ Worked("SpeechThread.run", run_loop(win, ok))
        /\ UNCHANGED nops
SpeechListen ==
    \E outcome \in ListenOutcomes :
        /\ win.speech_thread.pc = "listen"
        /\ Worked("SpeechThread.run", run_listen(win, outcome))
        /\ UNCHANGED nops
SpeechFails ==
    \E outcome \in RecognizeFailures :
        /\ win.speech_thread.pc = "recognize"
        /\ Worked("SpeechThread.run", run_recognize(win, outcome))
        /\ UNCHANGED nops
SpeechRecognizes ==
    \E text \in SpokenTexts :
        /\ win.speech_thread.pc = "recognize"
        /\ Act
        /\ Worked("SpeechThread.run", run_recognize(win, text))
SpeechWake ==
    /\ win.speech_thread.pc = "sleep"
    /\ Worked("SpeechThread.run", run_wake(win))
    /\ UNCHANGED nops
SpeechFinished ==
    /\ win.speech_thread.pc \in {"failed", "returned"}
    /\ Worked("SpeechThread.run", run_finished(win))
    /\ UNCHANGED nops
TTSInit ==
    \E ok \in BOOLEAN :
        /\ win.tts_thread.pc = "init"
        /\ Worked("TTSWorker.run", TTSWorker_run(win, ok))
        /\ UNCHANGED nops

SpeechStep ==
    \/ SpeechMicrophone
    \/ SpeechCalibrate
    \/ SpeechAdjust
    \/ SpeechLoop
    \/ SpeechListen
    \/ SpeechFails
    \/ SpeechRecognizes
    \/ SpeechWake
    \/ SpeechFinished

NextThreads ==
    \/ ThreadsLoad
    \/ ThreadsToggleVoice
    \/ ThreadsDeliver
    \/ SpeechStep
    \/ TTSInit

SpecThreads == Init /\ [][NextThreads]_vars

\* The speech thread and the control thread alone.  Every blocking call of
\* the speech thread returns (listen has a timeout, msleep a duration), and
\* the control thread's event loop keeps taking events.
NextListening ==
    \/ ThreadsToggleVoice
    \/ ThreadsDeliver
    \/ SpeechStep

SpecListening ==
    /\ Init
    /\ [][NextListening]_vars
    /\ WF_vars(SpeechStep)
    /\ WF_vars(ThreadsDeliver)

(***************************************************************************)
(* Files.  SpecFiles loads files that decode, one that does not and one    *)
(* that is missing, between edits, undos and clearings of the recent-files *)
(* list.                                                                   *)
(***************************************************************************)
FileTick == nops < MaxFiled /\ nops' = nops + 1

FileLoad ==
    \E path \in Paths \cup ColourPaths :
        /\ FileTick
        /\ Ran("load", _load_image_from_path(win, path))
FileInvert ==
    /\ FileTick
    /\ Ran("apply_invert", apply_invert(win))
FileUndo ==
    /\ FileTick
    /\ Ran("undo", undo(win))
FileClearRecent ==
    /\ FileTick
    /\ Ran("clear_recent", clear_recent(win))

NextFiles ==
    \/ FileLoad
    \/ FileInvert
    \/ FileUndo
    \/ FileClearRecent

SpecFiles == Init /\ [][NextFiles]_vars

-----------------------------------------------------------------------------
(* Properties *)

\* The handlers the specification counts as edits of the current frame.
RecordingOps == {"apply_grayscale", "apply_invert", "flip_horizontal", "reset_image"}
AdjustmentOps == {"apply_brightness", "apply_contrast", "apply_saturation", "apply_hue"}
EditOps == RecordingOps \cup AdjustmentOps

\* The step just taken was an edit that changed the current frame.
EditStep == op' \in EditOps /\ win'.current_image # win.current_image

RECURSIVE UndoTimes(_, _), RedoTimes(_, _)
UndoTimes(w, k) == IF k = 0 THEN w ELSE undo(UndoTimes(w, k - 1))
RedoTimes(w, k) == IF k = 0 THEN w ELSE redo(RedoTimes(w, k - 1))

\* C1: in every reachable state the undo stack holds at most 20
\* (max_stack_size) snapshots.
C1_UndoStackBounded == Len(win.undo_stack) <= max_stack_size

\* A redo, which pushes without a bound check, has just refilled the undo
\* stack to max_stack_size.
C1_Witness ==
    /\ op = "redo"
    /\ win.status = "Redo applied"
    /\ Len(win.undo_stack) = max_stack_size

\* C2: every edit that changes the current frame (filter, transform,
\* adjustment, reset to original) leaves the redo stack empty.
C2_EditClearsRedo == [][EditStep => win'.redo_stack = <<>>]_vars

\* C3: every edit that changes the current frame has put the frame it started
\* from on top of the undo stack, and one undo directly after it restores
\* that frame.
C3_EditRecordsFrame ==
    [][EditStep =>
          /\ win'.undo_stack # <<>>
          /\ Last(win'.undo_stack) = compress_image(win.current_image)
          /\ undo(win').current_image = win.current_image]_vars

\* C4: after N recorded edits (undo stack of N snapshots, nothing to redo),
\* N undos make the current frame the N earlier frames, newest first, and N
\* redos then make it the N later frames, oldest first, ending on the frame
\* that was current before the first undo with the undo stack as it was and
\* the redo stack empty.
C4_UndoRedoRoundTrip ==
    (win.current_image # None /\ win.redo_stack = <<>>) =>
        LET N == Len(win.undo_stack)
            oldest == UndoTimes(win, N)
            back == RedoTimes(oldest, N)
        IN  /\ \A k \in 1..N :
                   UndoTimes(win, k).current_image =
                       decompress_image(win.undo_stack[N - k + 1])
            /\ oldest.undo_stack = <<>>
            /\ \A k \in 1..N :
                   RedoTimes(oldest, k).current_image =
                       IF k < N THEN decompress_image(win.undo_stack[k + 1])
                       ELSE win.current_image
            /\ back.current_image = win.current_image
            /\ back.undo_stack = win.undo_stack
            /\ back.redo_stack = <<>>

\* Twenty edits have been recorded since the image was loaded and none undone.
C4_Witness ==
    /\ win.current_image # None
    /\ win.redo_stack = <<>>
    /\ Len(win.undo_stack) = max_stack_size
    /\ win.undo_stack[1] = compress_image(win.original_image)
    /\ op = "apply_invert"

\* C5: a recorded edit on an undo stack of 20 snapshots removes the oldest
\* (bottom) one and leaves the new snapshot on top: entries 2..20 followed by
\* the snapshot of the frame the edit started from.
C5_EvictsOldest ==
    [][(op' \in RecordingOps /\ win.current_image # None
            /\ Len(win.undo_stack) = max_stack_size) =>
          win'.undo_stack =
              SubSeq(win.undo_stack, 2, max_stack_size)
                  \o <<compress_image(win.current_image)>>]_vars

\* An edit has evicted the snapshot of the loaded image from a full stack.
C5_Witness ==
    /\ op = "apply_invert"
    /\ Len(win.undo_stack) = max_stack_size
    /\ win.undo_stack[1] # compress_image(win.original_image)

\* C6: undo with a non-empty undo stack pushes a snapshot of the current frame
\* on the redo stack, removes the top snapshot of the undo stack and makes it
\* the current frame; the other entries of both stacks stay.
C6_UndoMovesTop ==
    [][(op' = "undo" /\ win.undo_stack # <<>>) =>
          /\ win'.redo_stack =
                 win.redo_stack \o <<compress_image(win.current_image)>>
          /\ win'.undo_stack = SubSeq(win.undo_stack, 1, Len(win.undo_stack) - 1)
          /\ win'.current_image =
                 decompress_image(win.undo_stack[Len(win.undo_stack)])]_vars

\* An undo has pushed onto a redo stack that already held a snapshot.
C6_Witness ==
    /\ op = "undo"
    /\ win.status = "Undo applied"
    /\ Len(win.redo_stack) >= 2

\* C7: redo with a non-empty redo stack pushes a snapshot of the current frame
\* on the undo stack, removes the top snapshot of the redo stack and makes it
\* the current frame; the other entries of both stacks stay.
C7_RedoMovesTop ==
    [][(op' = "redo" /\ win.redo_stack # <<>>) =>
          /\ win'.undo_stack =
                 win.undo_stack \o <<compress_image(win.current_image)>>
          /\ win'.redo_stack = SubSeq(win.redo_stack, 1, Len(win.redo_stack) - 1)
          /\ win'.current_image =
                 decompress_image(win.redo_stack[Len(win.redo_stack)])]_vars

\* A redo has run with snapshots left on both stacks.
C7_Witness ==
    /\ op = "redo"
    /\ win.status = "Redo applied"
    /\ Len(win.redo_stack) >= 2
    /\ Len(win.undo_stack) >= 3

\* C8: undo with an empty undo stack and redo with an empty redo stack change
\* nothing but the status line.
C8_EmptyHistoryNoOp ==
    [][/\ (op' = "undo" /\ win.undo_stack = <<>>) =>
              win' = [win EXCEPT !.status = "Nothing to undo"]
       /\ (op' = "redo" /\ win.redo_stack = <<>>) =>
              win' = [win EXCEPT !.status = "Nothing to redo"]]_vars

\* An undo has found the undo stack empty while snapshots wait for redo and
\* a brightness baseline is cached.
C8_Witness ==
    /\ op = "undo"
    /\ win.status = "Nothing to undo"
    /\ win.redo_stack # <<>>
    /\ win.brightness_base # Absent

\* C9: the brightness and the contrast baseline are both absent after
\* reset_adjustments and after a successful load of an image.
C9_BaselinesCleared ==
    (op = "reset_adjustments" \/ (op = "load" /\ win.status = "Loaded")) =>
        (win.brightness_base = Absent /\ win.contrast_base = Absent)

\* C10: with an image loaded, a brightness (contrast) adjustment following
\* another one yields the frame the second adjustment alone yields, computed
\* from the cached baseline and the new value only, and leaves the baseline as
\* it was.  The first adjustment is the step just taken.
C10_NoCompounding ==
    [][/\ (op' = "apply_brightness" /\ win.current_image # None) =>
              /\ win'.brightness_base # Absent
              /\ \A v2 \in BrightnessValues :
                     LET w2 == apply_brightness(win', v2)
                     IN  /\ w2.current_image =
                                convertScaleAbs(win'.brightness_base, 100, v2)
                         /\ w2.current_image =
                                apply_brightness(win, v2).current_image
                         /\ w2.brightness_base = win'.brightness_base
       /\ (op' = "apply_contrast" /\ win.current_image # None) =>
              /\ win'.contrast_base # Absent
              /\ \A v2 \in ContrastValues :
                     LET w2 == apply_contrast(win', v2)
                     IN  /\ w2.current_image =
                                convertScaleAbs(win'.contrast_base, v2, 0)
                         /\ w2.current_image =
                                apply_contrast(win, v2).current_image
                         /\ w2.contrast_base = win'.contrast_base]_vars

\* The brightness slider has been moved to 60 after an earlier brightness
\* adjustment cached the baseline; the frame is the baseline plus 60.
C10_Witness ==
    /\ op = "apply_brightness"
    /\ win.brightness_slider = 60
    /\ win.brightness_base = imread("a.png")
    /\ win.current_image = Gray(3, 160)
    /\ nops >= 3

\* The saturation channel cv2 reads from a frame.
SaturationOf(img) == BGR2HSV(img).s
HueOf(img) == BGR2HSV(img).h

\* C11: a saturation or hue adjustment of a loaded image is computed from the
\* frame that is current when it is called and from no cached baseline (the
\* brightness and contrast baselines are neither read nor written), so a
\* second saturation adjustment of 150 scales the saturation the first one
\* left: the frame becomes more saturated again.
C11_LiveFrame ==
    [][/\ (op' = "apply_saturation" /\ win.current_image # None) =>
              LET hsv == BGR2HSV(win.current_image)
                  s == Min(255, (hsv.s * win'.saturation_slider) \div 100)
              IN  /\ win'.current_image = HSV2BGR([hsv EXCEPT !.s = s])
                  /\ win'.brightness_base = win.brightness_base
                  /\ win'.contrast_base = win.contrast_base
       /\ (op' = "apply_hue" /\ win.current_image # None) =>
              LET hsv == BGR2HSV(win.current_image)
                  h == (hsv.h + win'.hue_slider) % 180
              IN  /\ win'.current_image = HSV2BGR([hsv EXCEPT !.h = h])
                  /\ win'.brightness_base = win.brightness_base
                  /\ win'.contrast_base = win.contrast_base
       /\ win.current_image # None =>
              LET w1 == apply_saturation(win, 150)
                  w2 == apply_saturation(w1, 150)
                  s1 == SaturationOf(w1.current_image)
              IN  /\ w2.current_image =
                         HSV2BGR([BGR2HSV(w1.current_image) EXCEPT
                                      !.s = Min(255, (s1 * 150) \div 100)])
                  /\ (s1 >= 2 /\ s1 < 170) =>
                         SaturationOf(w2.current_image) > s1]_vars

\* Saturation 150 has been applied, the sliders reset, and saturation 150
\* applied again to the pale green image: its saturation went 96, 143, 214.
C11_Witness ==
    /\ op = "apply_saturation"
    /\ nops = 4
    /\ win.saturation_slider = 150
    /\ win.original_image = imread("sage.png")
    /\ SaturationOf(win.original_image) = 96
    /\ win.current_image = [ndim |-> 3, b |-> 70, g |-> 160, r |-> 26]
    /\ SaturationOf(win.current_image) = 214

\* C12 (as stated): a hue adjustment of +190 applied to a frame whose hue is
\* 170 produces hue 0.
C12_HueWrapsToZero ==
    (win.current_image # None /\ HueOf(win.current_image) = 170) =>
        LET hsv == BGR2HSV(win.current_image)
            w1 == apply_hue(win, 190)
        IN  /\ w1.current_image = HSV2BGR([hsv EXCEPT !.h = 0])
            /\ HueOf(w1.current_image) = 0

\* C12 (amended): a hue adjustment of +190 is clamped to +180, a full turn of
\* the hue circle, so applied to a frame whose hue is 170 it produces hue
\* (170 + 180) mod 180 = 170; an offset inside the range is added modulo 180
\* without saturating: +10 on hue 170 produces hue 0.
C12_HueClampedThenWrapped ==
    (win.current_image # None /\ HueOf(win.current_image) = 170) =>
        LET hsv == BGR2HSV(win.current_image)
            w1 == apply_hue(win, 190)
            w2 == apply_hue(win, 10)
        IN  /\ w1.current_image = HSV2BGR([hsv EXCEPT !.h = 170])
            /\ HueOf(w1.current_image) = 170
            /\ w2.current_image = HSV2BGR([hsv EXCEPT !.h = 0])
            /\ HueOf(w2.current_image) = 0

\* The hue slider, asked for 190, stopped at 180 and the hue adjustment ran
\* on the red-magenta image, whose hue is 170.
C12_Witness ==
    /\ op = "apply_hue"
    /\ nops = 2
    /\ win.hue_slider = 180
    /\ win.original_image = imread("rose.png")
    /\ HueOf(win.original_image) = 170
    /\ HueOf(win.current_image) = 170

\* C13: after a brightness adjustment by v in -100..100 every sample of the
\* frame is the baseline's sample plus v, held within 0..255:
\* min(255, max(0, sample + v)).
C13_BrightnessSaturates ==
    [][(op' = "apply_brightness" /\ win.current_image # None
            /\ win'.brightness_slider \in -100..100) =>
          LET base == win'.brightness_base
              v == win'.brightness_slider
          IN  /\ win'.current_image.b = Min(255, Max(0, base.b + v))
              /\ win'.current_image.g = Min(255, Max(0, base.g + v))
              /\ win'.current_image.r = Min(255, Max(0, base.r + v))]_vars

\* Parameter values around and far beyond the bounds of the range lo..hi.
AroundBounds(lo, hi) == ((lo - 3)..lo) \cup (hi..(hi + 3)) \cup {lo - 150, hi + 150}

\* C14: with an image loaded, each adjustment called with a value outside its
\* range (brightness -100..100, contrast and saturation 0..200, hue
\* -180..180) leaves the window exactly as the call with the nearest bound
\* of the range does, and so does asking the adjustment's slider for it.
C14_ParameterClamped ==
    win.current_image # None =>
        /\ \A v \in AroundBounds(-100, 100) :
               LET n == clamp(v, -100, 100)
               IN  /\ apply_brightness(win, v) = apply_brightness(win, n)
                   /\ brightness_slider_setValue(win, v) =
                          brightness_slider_setValue(win, n)
        /\ \A v \in AroundBounds(0, 200) :
               LET n == clamp(v, 0, 200)
               IN  /\ apply_contrast(win, v) = apply_contrast(win, n)
                   /\ contrast_slider_setValue(win, v) =
                          contrast_slider_setValue(win, n)
                   /\ apply_saturation(win, v) = apply_saturation(win, n)
                   /\ saturation_slider_setValue(win, v) =
                          saturation_slider_setValue(win, n)
        /\ \A v \in AroundBounds(-180, 180) :
               LET n == clamp(v, -180, 180)
               IN  /\ apply_hue(win, v) = apply_hue(win, n)
                   /\ hue_slider_setValue(win, v) = hue_slider_setValue(win, n)

\* The brightness slider, asked for -150, stopped at -100 and the brightness
\* adjustment darkened the red-magenta image by 100.
C14_Witness ==
    /\ op = "apply_brightness"
    /\ win.brightness_slider = -100
    /\ win.brightness_base = imread("rose.png")
    /\ win.current_image = convertScaleAbs(imread("rose.png"), 100, -100)

(***************************************************************************)
(* Voice steps.  A step of SpecVoice other than a load handles the         *)
(* utterance that ends the command history afterwards.                     *)
(***************************************************************************)
Heard(w) == Last(w.command_history)

\* The scores of every phrase against the keywords, in dictionary order.
similarity == [matcher \in Matchers, command \in Phrases |->
                  [k \in 1..Len(commands) |->
                      fuzz_ratio(matcher, lower(strip(command)), commands[k].key)]]

TopScore(scores) ==
    CHOOSE top \in {scores[k] : k \in DOMAIN scores} :
        \A k \in DOMAIN scores : scores[k] <= top

FirstAt(scores, top) ==
    CHOOSE k \in DOMAIN scores :
        scores[k] = top /\ \A j \in 1..(k - 1) : scores[j] # top

Handlers == {commands[k].handler : k \in 1..Len(commands)}

\* What the four patterns find in every phrase, in the order brightness,
\* contrast, saturation, hue.
extraction == [command \in Phrases |->
                  <<re_search(re_brightness, lower(strip(command))),
                    re_search(re_contrast, lower(strip(command))),
                    re_search(re_saturation, lower(strip(command))),
                    re_search(re_hue, lower(strip(command)))>>]

Sliders == <<"brightness_slider", "contrast_slider", "saturation_slider",
             "hue_slider">>

Matching(found) == {n \in 1..4 : found[n].found}

SliderRange ==
    <<[lo |-> -100, hi |-> 100], [lo |-> 0, hi |-> 200], [lo |-> 0, hi |-> 200],
      [lo |-> -180, hi |-> 180]>>

SliderValues(w) ==
    <<w.brightness_slider, w.contrast_slider, w.saturation_slider, w.hue_slider>>

\* For every phrase, the first keyword in dictionary order among those with
\* the highest score when that score is above 75, and 0 otherwise.
FirstBest == [matcher \in Matchers, command \in Phrases |->
                 LET scores == similarity[matcher, command]
                     top == TopScore(scores)
                 IN  IF top > 75 THEN FirstAt(scores, top) ELSE 0]

\* C15: the keyword with the highest similarity to the trimmed, lower-cased
\* utterance is selected, and only when that score is above 75; among
\* keywords sharing the highest score the first in dictionary order wins.
C15_FirstBestKeyword ==
    [][op' # "load" =>
         LET first == FirstBest[win.SequenceMatcher, Heard(win')]
         IN  IF first > 0
             THEN op' = commands[first].handler
             ELSE op' \notin Handlers]_vars

\* "unredo" is as similar to "undo" as to "redo" (80); undo, listed first,
\* was run.
C15_Witness ==
    /\ op = "undo"
    /\ Heard(win) = Unredo
    /\ similarity[win.SequenceMatcher, Unredo][18] = 80
    /\ similarity[win.SequenceMatcher, Unredo][19] = 80
    /\ commands[18].handler = "undo"
    /\ commands[19].handler = "redo"

C17_AdjustmentsResolve ==
    [][\A n \in 1..Len(HelpAdjustments) :
           op' # "load" /\ Heard(win') = HelpAdjustments[n].said =>
               /\ op' = HelpAdjustments[n].slider
               /\ SliderValues(win')[n] = 50]_vars

\* C18: each zero-argument command of the Help dialog, spoken as listed, runs
\* the handler of the operation it names.
C18_HelpCommandsDispatched ==
    [][\A n \in 1..Len(HelpCommands) :
           op' # "load" /\ Heard(win') = HelpCommands[n].said =>
               op' = HelpCommands[n].handler]_vars

\* C19: "grey scale" scores above 75 against "grayscale" and lower against
\* every other keyword, and runs the grayscale filter.
C19_GreyScale ==
    [][op' # "load" /\ Heard(win') = GreyScale =>
         LET scores == similarity[win.SequenceMatcher, GreyScale]
         IN  /\ commands[1].key = lower(HelpCommands[1].said)
             /\ scores[1] > 75
             /\ \A k \in 2..Len(commands) : scores[k] < scores[1]
             /\ op' = "apply_grayscale"
             /\ win' = apply_grayscale(log_command(win, GreyScale))]_vars

\* "grey scale" turned the loaded colour image gray.
C19_Witness ==
    /\ op = "apply_grayscale"
    /\ Heard(win) = GreyScale
    /\ win.original_image = imread("sage.png")
    /\ win.current_image = BGR2GRAY(imread("sage.png"))
    /\ win.current_image # win.original_image
    /\ Len(win.undo_stack) = 1

\* C20: an utterance that no keyword matches above 75 and no pattern matches
\* is logged and reported as not recognized; the frames, both stacks, the
\* baselines, the sliders, the zoom level and the unsaved-changes flag stay
\* as they were.
C20_UnrecognizedChangesNothing ==
    [][op' # "load"
         /\ TopScore(similarity[win.SequenceMatcher, Heard(win')]) <= 75
         /\ Matching(extraction[Heard(win')]) = {} =>
             /\ op' = "not recognized"
             /\ win'.status = "Command not recognized"
             /\ win'.command_history = Append(win.command_history, Heard(win'))
             /\ win' = [win EXCEPT !.command_history = win'.command_history,
                                   !.status = win'.status]]_vars

\* "xyzzy" was heard with an image loaded and zoomed in.
C20_Witness ==
    /\ op = "not recognized"
    /\ Heard(win) = Xyzzy
    /\ win.current_image = imread("a.png")
    /\ win.zoom_level.steps = 1
    /\ win.status = "Command not recognized"

(***************************************************************************)
(* The command history log.                                                *)
(***************************************************************************)
LastN(s, n) == SubSeq(s, Max(1, Len(s) - n + 1), Len(s))

\* C21: after n utterances the command history holds the last min(n, 15) of
\* them in arrival order, recognized or not: each utterance is appended and,
\* beyond 15 entries, the oldest is dropped.
C21_LastFifteen ==
    /\ [](Len(win.command_history) = Min(nops, 15))
    /\ [][\E command \in LogUtterances :
             /\ op' = interpretation[win.SequenceMatcher, command].target
             /\ win'.command_history =
                    LastN(Append(win.command_history, command), 15)]_vars

\* Seventeen utterances were heard; the log holds the third to the last.
C21_Witness ==
    /\ nops = 17
    /\ Len(win.command_history) = 15
    /\ win.command_history[1] = HelpCommands[20].said
    /\ win.command_history[2] = Xyzzy
    /\ Heard(win) = Xyzzy
    /\ op = "not recognized"

\* Logs a session could hold instead of its own.
OtherLogs == {<<>>, <<HelpCommands[6].said>>, <<BrightnessBy50, Xyzzy>>}

WithLog(w, log) == [w EXCEPT !.command_history = log]

\* C22: the command history has no effect on interpretation: handled in a
\* session that differs only in the log, the utterance just handled is
\* resolved to the same action with the same parameter, and leaves a
\* session that differs only in the log.
C22_LogUnobserved ==
    [][op' # "load" =>
         \A log \in OtherLogs :
             \E reply \in {"Yes", "No"} :
                 WithLog(win', <<>>) =
                     WithLog(handle_command(WithLog(win, log), Heard(win'), reply),
                             <<>>)]_vars

\* A session with an image and a log of its own, in which "invert" is
\* resolved to the filter whatever the log.
C22_Witness ==
    /\ op = "apply_sepia"
    /\ Len(win.command_history) = 2
    /\ win.command_history \notin OtherLogs
    /\ win.current_image # None
    /\ handle_command(win, HelpCommands[6].said, "No").current_image =
           bitwise_not(win.current_image)
    /\ handle_command(WithLog(win, <<HelpCommands[6].said>>), Xyzzy, "No")
           .current_image = win.current_image

(***************************************************************************)
(* No image loaded.                                                        *)
(***************************************************************************)
\* The window after each mutating operation invoked from its button, menu
\* entry or slider.
ByButton(w) ==
    {apply_grayscale(w), apply_blur(w), apply_sharpen(w), apply_edge_detection(w),
     apply_sepia(w), apply_invert(w), apply_histogram_equalization(w),
     apply_adaptive_thresholding(w), rotate_left(w), rotate_right(w),
     flip_horizontal(w), flip_vertical(w), apply_saturation_default(w),
     reset_adjustments(w), reset_image(w), undo(w), redo(w)}
        \cup {brightness_slider_setValue(w, v) : v \in BrightnessValues}
        \cup {contrast_slider_setValue(w, v) : v \in ContrastValues}
        \cup {saturation_slider_setValue(w, v) : v \in SaturationValues}
        \cup {hue_slider_setValue(w, v) : v \in HueValues}
        \cup {apply_brightness(w, v) : v \in BrightnessValues}
        \cup {apply_contrast(w, v) : v \in ContrastValues}
        \cup {apply_saturation(w, v) : v \in SaturationValues}
        \cup {apply_hue(w, v) : v \in HueValues}

\* The window after each utterance.
ByVoice(w) == {handle_command(w, command, "No") : command \in Utterances}

\* C23: with no image loaded every mutating operation, by button or by
\* voice, leaves the current frame absent and the history stacks, the
\* baselines and the unsaved-changes flag as they were.
C23_NoImageNoOp ==
    win.current_image = None =>
        \A w \in ByButton(win) \cup ByVoice(win) :
            /\ w.current_image = None
            /\ w.undo_stack = win.undo_stack
            /\ w.redo_stack = win.redo_stack
            /\ w.brightness_base = win.brightness_base
            /\ w.contrast_base = win.contrast_base
            /\ w.has_unsaved_changes = win.has_unsaved_changes

\* "invert" and then "undo" were asked for before any image was loaded.
C23_Witness ==
    /\ win.current_image = None
    /\ op = "undo"
    /\ win.status = "Nothing to undo"
    /\ Len(win.command_history) = 2
    /\ win.command_history[1] = HelpCommands[6].said
    /\ apply_invert(win).status = "No image loaded"
    /\ win.undo_stack = <<>>
    /\ ~win.has_unsaved_changes

(***************************************************************************)
(* Loading.                                                                *)
(***************************************************************************)
\* C25: after a successful load both history stacks are empty, the loaded
\* frame is the current and the original frame, and the unsaved-changes
\* flag is false.
C25_LoadStartsAfresh ==
    [][op' = "load" /\ win'.status = "Loaded" =>
         /\ \E path \in Paths :
                /\ imread(path) # None
                /\ win'.current_image = imread(path)
                /\ win'.original_image = imread(path)
         /\ win'.undo_stack = <<>>
         /\ win'.redo_stack = <<>>
         /\ ~win'.has_unsaved_changes]_vars

\* b.png was loaded.
C25_Witness ==
    /\ op = "load"
    /\ win.status = "Loaded"
    /\ win.current_image = imread("b.png")
    /\ win.original_image = imread("b.png")
    /\ win.undo_stack = <<>>
    /\ win.redo_stack = <<>>
    /\ ~win.has_unsaved_changes

(***************************************************************************)
(* Both history stacks.                                                    *)
(***************************************************************************)
\* C30: the undo stack and the redo stack together never hold more than 20
\* snapshots.
C30_HistoryBounded == Len(win.undo_stack) + Len(win.redo_stack) <= 20

\* Twenty snapshots, eight of them undone.
C30_Witness ==
    /\ Len(win.undo_stack) = 12
    /\ Len(win.redo_stack) = 8
    /\ op = "undo"

(***************************************************************************)
(* Failing decompression.                                                  *)
(***************************************************************************)
\* The undo or redo about to run restores a snapshot that does not decode.
RestoreFails(w, name) ==
    \/ /\ name = "undo"
       /\ w.undo_stack # <<>>
       /\ decompress_image(Last(w.undo_stack)) = None
    \/ /\ name = "redo"
       /\ w.redo_stack # <<>>
       /\ decompress_image(Last(w.redo_stack)) = None

\* C24: when the decompression of the snapshot fails during an undo or a
\* redo, the current frame stays the frame that was current before, and the
\* session remains usable: a filter still applies to that frame.
C24_FailedRestoreKeepsFrame ==
    [][RestoreFails(win, op') =>
         /\ win'.current_image = win.current_image
         /\ (win.current_image # None =>
                apply_invert(win').current_image = bitwise_not(win.current_image))]_vars

\* What the workers own: their threads' positions and the events they post.
Workers == {"SpeechThread.run", "TTSWorker.run"}
Unposted(w) ==
    [w EXCEPT !.speech_thread.pc = "idle", !.tts_thread.pc = "init",
              !.event_queue = <<>>]

\* C26: a step of the speech thread or of the text-to-speech thread leaves
\* the frame, the original, the history stacks, the baselines and every other
\* field of the window as it was; all it does besides moving on in its own
\* procedure is to post at most one event to the control thread, behind the
\* events already waiting.
C26_WorkersOnlyEmit ==
    [][op' \in Workers =>
          /\ Unposted(win') = Unposted(win)
          /\ \/ win'.event_queue = win.event_queue
             \/ /\ Len(win'.event_queue) = Len(win.event_queue) + 1
                /\ Front(win'.event_queue) = win.event_queue]_vars
C26_Witness ==
    /\ op = "SpeechThread.run"
    /\ win.current_image = imread("a.png")
    /\ win.undo_stack = <<>>
    /\ win.command_history = <<>>
    /\ win.event_queue # <<>>
    /\ Last(win.event_queue) = [signal |-> "command_signal", arg |-> "invert"]

\* C27: the speech thread starts a listen only from the test of its loop and
\* only with the running flag set; and whenever the flag is clear, the thread
\* is not running, or comes to its end, or the flag is set again.
C27_StopEndsLoop ==
    /\ [][op' = "SpeechThread.run" /\ win'.speech_thread.pc = "listen" =>
             win.speech_thread.pc = "loop" /\ win.speech_thread.running]_vars
    /\ (~win.speech_thread.running) ~>
           (win.speech_thread.pc \in {"idle", "finished"} \/ win.speech_thread.running)
C27_Witness ==
    /\ op = "SpeechThread.run"
    /\ win.speech_thread = [running |-> FALSE, pc |-> "finished"]
    /\ ~win.voice_button.checked
    /\ win.command_history # <<>>

\* C28: inside the listening loop every outcome of listen and of
\* recognize_google, failures included, posts at most one event (an
\* error_signal for a failure other than the timeout, whose slot only shows
\* the message) and leads back to the test of the loop; the loop is left only
\* at that test and only with the running flag clear.
InLoop == {"listen", "recognize", "sleep"}
C28_FailuresRecover ==
    /\ [][op' = "SpeechThread.run" /\ win.speech_thread.pc \in InLoop =>
             /\ win'.speech_thread.pc \in InLoop \cup {"loop"}
             /\ Len(win'.event_queue) <= Len(win.event_queue) + 1]_vars
    /\ [][op' = "SpeechThread.run" /\ win.speech_thread.pc = "loop"
             /\ win'.speech_thread.pc = "returned" =>
             ~win.speech_thread.running]_vars
    /\ [][op' = "error_signal" =>
             win' = [win EXCEPT !.status = Head(win.event_queue).arg,
                                !.event_queue = Tail(@)]]_vars
    /\ (win.speech_thread.pc \in InLoop) ~> (win.speech_thread.pc = "loop")
C28_Witness ==
    /\ op = "SpeechThread.run"
    /\ win.speech_thread = [running |-> TRUE, pc |-> "listen"]
    /\ Len(win.event_queue) = 2
    /\ win.event_queue[1] = [signal |-> "error_signal", arg |-> "API error"]
    /\ win.event_queue[2] = [signal |-> "status_signal", arg |-> "Listening..."]

\* The texts received and not yet handled, oldest first.
RECURSIVE Pending(_)
Pending(queue) ==
    IF queue = <<>> THEN <<>>
    ELSE IF Head(queue).signal = "command_signal"
    THEN <<Chars(Head(queue).arg)>> \o Pending(Tail(queue))
    ELSE Pending(Tail(queue))
Received(w) == w.command_history \o Pending(w.event_queue)

\* C29: the commands handled so far followed by those waiting are the
\* commands in the order the speech thread posted them: a step either leaves
\* that sequence alone or is the speech thread posting one more at its end;
\* and the step that handles a command is the whole of handle_command on the
\* oldest event, with the later events left waiting.
C29_CommandsInOrder ==
    /\ [][\/ Received(win') = Received(win)
          \/ /\ op' = "SpeechThread.run"
             /\ \E text \in SpokenTexts :
                    Received(win') = Append(Received(win), Chars(text))]_vars
    /\ [][op' = "command_signal" =>
             /\ Head(win.event_queue).signal = "command_signal"
             /\ win' = handle_command([win EXCEPT !.event_queue = Tail(@)],
                                      Chars(Head(win.event_queue).arg), "No")]_vars
C29_Witness ==
    /\ op = "command_signal"
    /\ win.command_history = <<Chars("invert")>>
    /\ win.current_image = bitwise_not(imread("a.png"))
    /\ Len(win.undo_stack) = 1
    /\ Pending(win.event_queue) = <<Chars("sepia")>>

\* Frames the current frame could have been instead.
OtherFrames == {imread("b.png"), bitwise_not(imread("a.png")), Gray(3, 0)}

\* C31: a brightness (contrast) adjustment made with an image loaded and a
\* brightness (contrast) baseline cached makes the current frame the baseline
\* adjusted by the slider's new value, whatever frame was current: with any
\* other current frame the adjustment yields the same frame.
C31_BaselineOverridesEdits ==
    [][/\ (/\ op' = "apply_brightness"
           /\ win.current_image # None
           /\ win.brightness_base # Absent) =>
              /\ win'.current_image =
                     convertScaleAbs(win.brightness_base, 100, win'.brightness_slider)
              /\ \A frame \in OtherFrames :
                     apply_brightness([win EXCEPT !.current_image = frame],
                                      win'.brightness_slider).current_image
                         = win'.current_image
       /\ (/\ op' = "apply_contrast"
           /\ win.current_image # None
           /\ win.contrast_base # Absent) =>
              /\ win'.current_image =
                     convertScaleAbs(win.contrast_base, win'.contrast_slider, 0)
              /\ \A frame \in OtherFrames :
                     apply_contrast([win EXCEPT !.current_image = frame],
                                    win'.contrast_slider).current_image
                         = win'.current_image]_vars

\* a.png (sample 100) was given contrast 150 and inverted; contrast 50 then
\* gives half of the loaded sample, and the inversion, still recorded for
\* undo, is gone from the frame.
C31_Witness ==
    /\ op = "apply_contrast"
    /\ win.contrast_slider = 50
    /\ win.contrast_base = imread("a.png")
    /\ win.current_image = Gray(3, 50)
    /\ Len(win.undo_stack) = 1
    /\ win.brightness_base = Absent

\* C32: every edit that changes the current frame leaves the unsaved-changes
\* flag set, and the window, asked to close with "No" as the answer to the
\* confirmation, stays open.
C32_EditsMarkUnsaved ==
    [][EditStep =>
          /\ win'.has_unsaved_changes
          /\ ~closeEvent(win', "No").closed]_vars

\* C33: whenever the current frame is absent both history stacks are empty,
\* so undo and redo called then find nothing to restore and compress nothing.
C33_NoImageNoHistory ==
    win.current_image = None =>
        /\ win.undo_stack = <<>>
        /\ win.redo_stack = <<>>
        /\ undo(win).status = "Nothing to undo"
        /\ redo(win).status = "Nothing to redo"

\* C34: a speech thread that has left its listening loop does not finish
\* while voice control is switched on with the running flag set (after which
\* the flag is set, the thread has finished and nothing starts a new one).
C34_NoLostStart ==
    [][(/\ op' = "SpeechThread.run"
        /\ win.speech_thread.pc = "returned"
        /\ win'.speech_thread.pc = "finished") =>
           ~(win'.voice_button.checked /\ win'.speech_thread.running)]_vars

\* C35: while voice control is switched off, no recognized text is handled:
\* an event of command_signal taken by the event loop while the voice button
\* is unchecked leaves the command log and the current frame as they were.
C35_OffMeansDeaf ==
    [][(op' = "command_signal" /\ ~win.voice_button.checked) =>
           /\ win'.command_history = win.command_history
           /\ win'.current_image = win.current_image]_vars

\* C36: the original frame changes only in a successful load, which makes it
\* the frame loaded; and reset_image with an original present makes the
\* current frame that original.
C36_OriginalOnlyByLoad ==
    [][/\ win'.original_image # win.original_image =>
              /\ op' = "load"
              /\ win'.status = "Loaded"
              /\ win'.original_image = win'.current_image
              /\ \E path \in Paths : win'.original_image = imread(path)
       /\ (op' = "reset_image" /\ win.original_image # None) =>
              /\ win'.current_image = win.original_image
              /\ win'.original_image = win.original_image]_vars

\* An edited a.png was reset: the frame is the one loaded again, and the
\* frame the reset replaced, recorded for undo, is another one.
C36_Witness ==
    /\ op = "reset_image"
    /\ win.status = "Image reset"
    /\ win.original_image = imread("a.png")
    /\ win.current_image = imread("a.png")
    /\ Len(win.undo_stack) = 2
    /\ decompress_image(Last(win.undo_stack)) # imread("a.png")

\* C37: a load that does not succeed (the file is missing or does not
\* decode) changes nothing but the status line: the current frame, the
\* original, both history stacks, the unsaved-changes flag and the
\* recent-files list are what they were.
C37_FailedLoadChangesNothing ==
    [][(op' = "load" /\ win'.status # "Loaded") =>
           /\ win' = [win EXCEPT !.status = win'.status]
           /\ win'.status \in {"File not found", "Failed to load image"}]_vars

\* bad.png, which does not decode, was opened over an inverted a.png: the
\* inverted frame, its snapshot, the flag and the list are still there.
C37_Witness ==
    /\ op = "load"
    /\ win.status = "Failed to load image"
    /\ win.current_image = bitwise_not(imread("a.png"))
    /\ win.original_image = imread("a.png")
    /\ Len(win.undo_stack) = 1
    /\ win.has_unsaved_changes
    /\ win.recent_files = <<"a.png">>

=============================================================================
